---- MODULE Spec2Model ----
(***************************************************************************)
(* State-machine model of the wings daemon's outgoing server transfer      *)
(* (server/transfer.rs), of the object-store backup adapter's multipart    *)
(* upload (server/backup/s3.rs), of archive extraction and creation        *)
(* (server/filesystem/archive/mod.rs), of the rename route and of the      *)
(* snapshot adapter's create and restore (server/backup/restic.rs). Each   *)
(* component has its own specification; the others stay idle in it.        *)
(*                                                                         *)
(* A tokio task is modelled as a program counter that moves from one await *)
(* point to the next. JoinHandle::abort() drops a task that is suspended   *)
(* at an await point; a task that is running synchronous code keeps        *)
(* running until its next await point, and is dropped there if that await  *)
(* has to wait.                                                            *)
(***************************************************************************)
EXTENDS Integers, Sequences, FiniteSets, TLC

\* ------------------------------------------------------------------ bounds
\* Number of start() calls made on one OutgoingServerTransfer value.
MaxStarts == 2
\* Number of backups known to the server.
NumBackups == 2

\* Largest scratch file, largest part_size and longest URL list the panel returns.
MaxSize == 4
MaxPartSize == 3
MaxUrls == 3

\* s3.rs 237: `if attempts > 50`.
MaxAttempts == 50

\* Longest archive given to Archive::extract, in entries.
MaxEntries == 2

\* Longest `files` list of a rename request.
MaxRenames == 2

\* Most entries the walker yields below the source directory of create_tar/create_zip.
MaxFiles == 2

\* Number of backup uuids known to the snapshot adapter, and most JSON lines the
\* snapshot CLI prints before it closes its stdout.
NumUuids == 2
MaxLines == 2

\* Archive::open reads the first 16 bytes of the file.
HeaderLen == 16

\* The longest file a BoundedReader is opened on, and the largest space left
\* in a caller's buffer.
MaxFileLen == 4
MaxSpace == 2

\* The longest archive streamed, the capacity of the duplex pipes and the
\* length of the checksum task's buffer.
MaxBytes == 3
PipeCap == 2
BufLen == 2

\* The most entries of a zip archive and the most threads of a pool.
MaxZipEntries == 3
MaxThreads == 2

\* The most folders of a 7z archive and the most entries of a folder.
MaxFolders == 2
MaxFolderEntries == 3

\* The most entries the walker of a transfer yields, and how many appended
\* entries a compressing encoder holds back before it writes a block.
MaxWalk == 4
EncBlock == 3

\* The most paths the sources of a create_zip yield.
MaxItems == 3

\* The number of calls into the snapshot adapter.
NumCallers == 2

Tasks == 1..MaxStarts
Backups == 1..NumBackups

VARIABLES
    \* ---- outgoing transfer (server/transfer.rs)
    transferring,   \* server.transferring (AtomicBool)
    serverState,    \* server.state.get_state()
    holder,         \* who owns the OutgoingServerTransfer value
    starts,         \* number of start() calls so far; the value's `task` is task `starts`
    tasks,          \* per spawned transfer task: its position and locals
    ws,             \* ServerTransferStatus events sent on server.websocket, in order
    deletedStore,   \* backups removed from the server by backup.delete()
    panelTransfer,  \* the panel-side transfer flag, cleared by set_server_transfer(uuid, false)
    \* ---- object-store create_backup (server/backup/s3.rs), from line 224 on
    s3pc,           \* position in create_backup
    size,           \* file.metadata().len() of the scratch file
    partSize,       \* part_size returned by backup_upload_urls
    nUrls,          \* part_urls.len()
    idx,            \* i: index of the URL being uploaded
    remaining,      \* remaining_size
    attempts,       \* attempts made for the current part
    parts,          \* Vec<RawServerBackupPart>
    uploaded,       \* (offset, len) of the BoundedReader of each PUT that returned 2xx
    acked,          \* part numbers for which a PUT returned a 2xx status
    scratch,        \* whether the scratch file <uuid>.s3.tar.gz exists
    \* ---- Archive::extract (server/filesystem/archive/mod.rs 274-731)
    xType,          \* self.archive
    xEntries,       \* the entries of the archive, in stream order
    xPos,           \* index of the next entry to decode
    xMade,          \* <<i, what>>: what was created under destination for entry i
    xRes,           \* "running", or the result of extract
    \* ---- rename route (routes/api/servers/_server_/files/rename.rs)
    rnRootIsDir,    \* metadata(root).map(is_dir).unwrap_or(true)
    rnFiles,        \* data.files, each with what the filesystem answers for it
    rnPos,          \* index of the next file of the loop
    rnDone,         \* indices of the files for which rename_path returned Ok
    renamed_count,  \* renamed_count
    rnStatus,       \* "idle", "running", or the status code of the response
    \* ---- Archive::create_tar / create_zip, then extract of the result (archive/mod.rs)
    arFormat,       \* "tar" or "zip"
    arTz,           \* offset of chrono::Local from UTC, in seconds
    arSrc,          \* what the walker yields below the source directory, in order
    arPos,          \* index of the next entry of the walk, then of the extraction
    arEntries,      \* the entries appended to the archive
    arOut,          \* what the extraction created under its destination
    arPhase,        \* "create", "extract", "ok" (both returned Ok) or "err"
    \* ---- snapshot adapter create_backup / restore_backup (server/backup/restic.rs)
    rsOp,           \* "create" or "restore"
    rsUuid,         \* uuid
    rsPc,           \* position in the operation
    CACHED_BACKUPS, \* the uuids that are keys of the cached map
    rsBackups,      \* `backups`, the result of get_backup_list
    rsLines,        \* JSON lines read from the child's stdout so far
    snapshot_id,    \* snapshot_id of the last summary line, or "none"
    rsExit,         \* exit status of the child, "none" while it runs
    rsRes,          \* "none", or the result of the operation
    \* ssh/exec.rs, ExecSession::run
    exCmd,          \* the shape of the command line of the exec request
    exPerms,        \* the permissions the panel granted the user
    exState,        \* server.state.get_state()
    exStdin,        \* TRUE iff server.container_stdin() is Some
    exPc,           \* "idle", "start", "extract", "compress", "console", "done"
    exChan,         \* what the client received on the channel, in order
    exAlive,        \* FALSE once an operation on the channel failed
    exActivity,     \* the activity events logged
    exWritten,      \* TRUE iff the command line was sent to the container's stdin
    exOutcome,      \* "none", "succeeded", "denied", "failed"
    \* filesystem/archive/mod.rs, Archive::estimated_size of a zstd archive
    zHeader,        \* Archive.header: the first HeaderLen bytes of the file
    zPc,            \* "idle", "opened", "done"
    zRes,           \* the Option<u64> returned: <<>> or <<v>>, v the 8 bytes of the u64, low byte first
    \* backup/s3.rs, BoundedReader; byte i of the file is written i
    brFileLen,      \* the length of the underlying file
    brOffset,       \* the offset given to new_with_bytes_written
    brSize,         \* BoundedReader.size
    brPosition,     \* BoundedReader.position
    brFd,           \* the offset of the file descriptor
    brBusy,         \* the length of the blocking read in flight in the File, 0 if none
    brBuf,          \* the bytes the File has read and not handed out yet
    brOut,          \* the bytes put into the callers' buffers, in order
    brLast,         \* "none", or the number of bytes the last completed read returned
    brPc,           \* "idle", "open", "error"
    \* transfer.rs, the archive -> checksum -> upload pipes; byte i of the archive is written i
    pSrcLen,        \* the length of the archive the archive task would write
    pArchived,      \* how many bytes the archive task has written
    pArchive,       \* "idle", "running", "ok", "failed": the archive task
    pIn,            \* the contents of the checksummed_writer/checksummed_reader pipe
    pCk,            \* "idle", "read", "forward", "digest", "done", "error": the checksum task
    pChunk,         \* the bytes of `buffer` not yet written by write_all
    pHashed,        \* the bytes fed to the hasher, in order
    pForwarded,     \* the bytes written to `writer`, in order
    pUp,            \* the contents of the writer/reader pipe
    pSide,          \* what was written to checksum_writer: <<>> or <<digest>>
    pUpload,        \* "idle", "open", "closed": the request that reads both pipes
    pSent,          \* the archive bytes the request has read
    \* filesystem/archive/mod.rs and backup/wings.rs, the zip extraction worker pool
    poLen,          \* archive.len()
    poThreads,      \* the number of threads of the pool
    entry_index,    \* the shared AtomicUsize
    poWorker,       \* per worker: pc ("off", "check", "claim", "entry", "failed", "done") and its index i
    poClaims,       \* the pairs <<worker, i>> in the order fetch_add returned them
    poExtracted,    \* the entry indices written to the filesystem, in order
    poError,        \* the shared error slot: <<>>, or <<w>> holding the error of worker w
    poRes,          \* <<"none">>, <<"ok">> or <<"err", w>>: what the coordinator returns
    \* filesystem/archive/mod.rs, the 7z extraction worker pool
    szFolders,      \* per folder of the archive: the number of its entries
    szThreads,      \* the number of threads of the pool
    szTask,         \* per folder task: pc ("queued", "running", "failed", "done") and entries handled
    szError,        \* the shared error slot: <<>>, or <<f>> holding the error of the task of folder f
    szAfter,        \* per folder task: entries it started while the slot held an error
    szFailed,       \* the folder tasks whose for_each_entries returned an error
    szRes,          \* <<"none">>, <<"ok">> or <<"err", f>>: what the coordinator returns
    \* transfer.rs, the blocking archive task of a transfer, entry by entry
    atFormat,       \* archive_format: "tar", "tar_gz", "tar_zst"
    atWalk,         \* the number of entries the walker yields
    atPos,          \* how many of them the loop has handled
    atEnc,          \* entries appended whose bytes are still held by the encoder
    atReaderDropped,\* TRUE once the transfer task was aborted: the pipe's reader is gone
    atAfter,        \* entries appended to the archive after the abort
    atPc,           \* "idle", "running", "ok", "failed"
    \* filesystem/archive/mod.rs, Archive::create_zip
    czItems,        \* what the sources and their walkers yield, in order: "skip" or "entry"
    czPos,          \* how many of them the closure has handled
    czAdded,        \* the entries started in the zip
    abort,          \* the AtomicBool
    czFuture,       \* "idle", "base_dir", "closure" (the two awaits), "dropped", "returned"
    czClosure,      \* "none", "running", "ok", "aborted", "error"
    \* backup/restic.rs, CACHED_BACKUPS with its refresh tasks and its users
    cbCache,        \* CACHED_BACKUPS: <<>> for None, <<S>> for Some(map), S the uuids it maps
    cbRepo,         \* the uuids that have a snapshot in the repository
    cbRefresh,      \* per refresh task: pc ("off", "run", "store") and the list it built
    cbCall,         \* per caller: op, uuid, pc, the list get_backup_list returned, the result
    cbSpawned,      \* how many refresh tasks were launched
    \* backup/wings.rs, the local adapter's backup directory
    lcDir,          \* the file names present in the backup directory
    lcUuid,         \* the uuid delete_backup is called with
    lcPc,           \* "idle", "start", "deleted", "listed", "done"
    lcDeleted,      \* result of delete_backup: <<"none">>, <<"ok">>, <<"err">>
    lcListed,       \* the uuids list_backups returned afterwards
    lcFirst         \* result of get_first_file_name afterwards: <<"none">>, <<"ok", name>>, <<"err">>

transferVars ==
    <<transferring, serverState, holder, starts, tasks, ws, deletedStore, panelTransfer>>

s3Vars ==
    <<s3pc, size, partSize, nUrls, idx, remaining, attempts, parts, uploaded, acked, scratch>>

extractVars == <<xType, xEntries, xPos, xMade, xRes>>

renameVars == <<rnRootIsDir, rnFiles, rnPos, rnDone, renamed_count, rnStatus>>

archiveVars == <<arFormat, arTz, arSrc, arPos, arEntries, arOut, arPhase>>

resticVars ==
    <<rsOp, rsUuid, rsPc, CACHED_BACKUPS, rsBackups, rsLines, snapshot_id, rsExit, rsRes>>

execVars == <<exCmd, exPerms, exState, exStdin, exPc, exChan, exAlive, exActivity, exWritten, exOutcome>>

zstdVars == <<zHeader, zPc, zRes>>

readerVars == <<brFileLen, brOffset, brSize, brPosition, brFd, brBusy, brBuf, brOut, brLast, brPc>>

pipeVars == <<pSrcLen, pArchived, pArchive, pIn, pCk, pChunk, pHashed, pForwarded, pUp, pSide, pUpload, pSent>>

poolVars == <<poLen, poThreads, entry_index, poWorker, poClaims, poExtracted, poError, poRes>>

sevenzVars == <<szFolders, szThreads, szTask, szError, szAfter, szFailed, szRes>>

archiveTaskVars == <<atFormat, atWalk, atPos, atEnc, atReaderDropped, atAfter, atPc>>

zipVars == <<czItems, czPos, czAdded, abort, czFuture, czClosure>>

cacheVars == <<cbCache, cbRepo, cbRefresh, cbCall, cbSpawned>>

localVars == <<lcDir, lcUuid, lcPc, lcDeleted, lcListed, lcFirst>>

vars ==
    <<transferVars,
      s3Vars,
      extractVars,
      renameVars,
      archiveVars,
      resticVars,
      execVars,
      zstdVars,
      readerVars,
      pipeVars,
      poolVars,
      sevenzVars,
      archiveTaskVars,
      zipVars,
      cacheVars,
      localVars>>

\* What the steps of one component leave alone: the other components' state.
notTransfer ==
    <<s3Vars, extractVars, renameVars, archiveVars, resticVars, execVars, zstdVars, readerVars, pipeVars, poolVars, sevenzVars, archiveTaskVars, zipVars, cacheVars, localVars>>
notS3 ==
    <<transferVars, extractVars, renameVars, archiveVars, resticVars, execVars, zstdVars, readerVars, pipeVars, poolVars, sevenzVars, archiveTaskVars, zipVars, cacheVars, localVars>>
notExtract ==
    <<transferVars, s3Vars, renameVars, archiveVars, resticVars, execVars, zstdVars, readerVars, pipeVars, poolVars, sevenzVars, archiveTaskVars, zipVars, cacheVars, localVars>>
notRename ==
    <<transferVars, s3Vars, extractVars, archiveVars, resticVars, execVars, zstdVars, readerVars, pipeVars, poolVars, sevenzVars, archiveTaskVars, zipVars, cacheVars, localVars>>
notArchive ==
    <<transferVars, s3Vars, extractVars, renameVars, resticVars, execVars, zstdVars, readerVars, pipeVars, poolVars, sevenzVars, archiveTaskVars, zipVars, cacheVars, localVars>>
notRestic ==
    <<transferVars, s3Vars, extractVars, renameVars, archiveVars, execVars, zstdVars, readerVars, pipeVars, poolVars, sevenzVars, archiveTaskVars, zipVars, cacheVars, localVars>>
notExec ==
    <<transferVars, s3Vars, extractVars, renameVars, archiveVars, resticVars, zstdVars, readerVars, pipeVars, poolVars, sevenzVars, archiveTaskVars, zipVars, cacheVars, localVars>>
notZstd ==
    <<transferVars, s3Vars, extractVars, renameVars, archiveVars, resticVars, execVars, readerVars, pipeVars, poolVars, sevenzVars, archiveTaskVars, zipVars, cacheVars, localVars>>
notReader ==
    <<transferVars, s3Vars, extractVars, renameVars, archiveVars, resticVars, execVars, zstdVars, pipeVars, poolVars, sevenzVars, archiveTaskVars, zipVars, cacheVars, localVars>>
notPipe ==
    <<transferVars, s3Vars, extractVars, renameVars, archiveVars, resticVars, execVars, zstdVars, readerVars, poolVars, sevenzVars, archiveTaskVars, zipVars, cacheVars, localVars>>
notPool ==
    <<transferVars, s3Vars, extractVars, renameVars, archiveVars, resticVars, execVars, zstdVars, readerVars, pipeVars, sevenzVars, archiveTaskVars, zipVars, cacheVars, localVars>>
notSevenZ ==
    <<transferVars, s3Vars, extractVars, renameVars, archiveVars, resticVars, execVars, zstdVars, readerVars, pipeVars, poolVars, archiveTaskVars, zipVars, cacheVars, localVars>>
notArchiveTask ==
    <<transferVars, s3Vars, extractVars, renameVars, archiveVars, resticVars, execVars, zstdVars, readerVars, pipeVars, poolVars, sevenzVars, zipVars, cacheVars, localVars>>
notZip ==
    <<transferVars, s3Vars, extractVars, renameVars, archiveVars, resticVars, execVars, zstdVars, readerVars, pipeVars, poolVars, sevenzVars, archiveTaskVars, cacheVars, localVars>>
notCache ==
    <<transferVars, s3Vars, extractVars, renameVars, archiveVars, resticVars, execVars, zstdVars, readerVars, pipeVars, poolVars, sevenzVars, archiveTaskVars, zipVars, localVars>>
notLocal ==
    <<transferVars, s3Vars, extractVars, renameVars, archiveVars, resticVars, execVars, zstdVars, readerVars, pipeVars, poolVars, sevenzVars, archiveTaskVars, zipVars, cacheVars>>

\* ------------------------------------------------------------- helpers

\* backup.adapter of the entry of backup b in InternalBackup::list: the backups
\* alternate between the local (Wings) adapter and another one.
adapter(b) == IF b % 2 = 1 THEN "Wings" ELSE "S3"

Min(S) == CHOOSE x \in S : \A y \in S : x <= y

\* The locals of a task that was never spawned.
IdleTask ==
    [pc |-> "idle", abortReq |-> FALSE, requested |-> {}, deleteBackups |-> FALSE,
     blist |-> {}, todo |-> {}, attached |-> {}, dtodo |-> {}, deleted |-> {},
     progress |-> "none", completed |-> "none", failed |-> FALSE]

\* tokio::spawn(async move { ... }) in start(): the captured arguments.
NewTask(bs, del) ==
    [IdleTask EXCEPT !.pc = "spawned", !.requested = bs, !.deleteBackups = del]

\* The task at position pc without the locals it reads no more (backups,
\* backup_list, the form, the results of join!): when it returns or is cancelled,
\* and when it enters transfer_failure, which reads only `server`. What is kept:
\* the progress task and the `completed` sender it spawned, and the model's note of
\* whether one of the activities joined by join! failed.
Ended(rec, pc) ==
    [IdleTask EXCEPT !.pc = pc, !.progress = rec.progress, !.completed = rec.completed,
                     !.failed = rec.failed]

\* Positions at which the task is suspended on I/O: an aborted task is dropped there.
AwaitPcs == {"spawned", "stopping", "list", "form", "join", "delete", "tf_panel"}
\* Positions after which the task runs no more code.
TerminalPcs == {"done", "cancelled"}

Status(t, s) == <<t, s>>
Sent(t, s) == \E i \in 1..Len(ws) : ws[i] = Status(t, s)


\* The first loop (transfer.rs 310-372) runs synchronously over requested backups
\* that are absent from backup_list or not Wings backups: it only suspends for a
\* Wings backup (get_first_file_name / File::open).
RECURSIVE FormSkip(_, _)
FormSkip(S, bl) ==
    IF S = {} THEN {}
    ELSE LET b == Min(S) IN
         IF b \in bl /\ adapter(b) = "Wings" THEN S ELSE FormSkip(S \ {b}, bl)

\* The second loop (transfer.rs 469-497) suspends only in backup.delete(), which
\* it calls for every requested backup found in backup_list when delete_backups.
RECURSIVE DeleteSkip(_, _, _)
DeleteSkip(S, bl, del) ==
    IF S = {} \/ ~del THEN {}
    ELSE LET b == Min(S) IN
         IF b \in bl THEN S ELSE DeleteSkip(S \ {b}, bl, del)

\* JoinHandle::abort() on task t (no effect on a task that does not exist or
\* has ended): a suspended task is dropped, a running one is marked.
Abort(ts, t) ==
    IF t \notin Tasks \/ ts[t].pc \in {"idle"} \union TerminalPcs THEN ts
    ELSE IF ts[t].pc \in AwaitPcs THEN [ts EXCEPT ![t] = Ended(@, "cancelled")]
    ELSE [ts EXCEPT ![t].abortReq = TRUE]

\* ------------------------------------------------------------- actions

\* OutgoingServerTransfer::start: spawn the new task, abort the replaced one.
Start ==
    /\ starts < MaxStarts
    /\ holder # "dropped"
    /\ \E bs \in SUBSET Backups, del \in BOOLEAN :
          tasks' = [Abort(tasks, starts) EXCEPT ![starts + 1] = NewTask(bs, del)]
    /\ starts' = starts + 1
    /\ UNCHANGED <<transferring, serverState, holder, ws, deletedStore, panelTransfer, notTransfer>>

\* The caller moves the value into server.outgoing_transfer.
PlaceInSlot ==
    /\ holder = "caller"
    /\ holder' = "slot"
    /\ UNCHANGED <<transferring, serverState, starts, tasks, ws, deletedStore, panelTransfer, notTransfer>>

\* impl Drop for OutgoingServerTransfer, run when the owner drops the value.
DropTransfer ==
    /\ holder # "dropped"
    /\ holder' = "dropped"
    /\ tasks' = Abort(tasks, starts)
    /\ UNCHANGED <<transferring, serverState, starts, ws, deletedStore, panelTransfer, notTransfer>>

\* A task whose abort was requested while it was running reaches
\* outgoing_transfer.write().await (transfer.rs 99) and has to wait for the lock:
\* the runtime drops it there.
Cancel(t) ==
    /\ tasks[t].abortReq
    /\ tasks[t].pc = "tf_slot"
    /\ tasks' = [tasks EXCEPT ![t] = Ended(@, "cancelled")]
    /\ UNCHANGED <<transferring, serverState, holder, starts, ws, deletedStore, panelTransfer, notTransfer>>

\* transfer.rs 147-158: log, broadcast `processing`, create the pipes, spawn the
\* archive task, then suspend in limiter_usage()/InternalBackup::list().
Processing(t) ==
    /\ ws' = Append(ws, Status(t, "processing"))
    /\ tasks' = [tasks EXCEPT ![t].pc = "list"]

\* First poll of the task (transfer.rs 131-134).
Begin(t) ==
    /\ tasks[t].pc = "spawned"
    /\ IF serverState # "offline"
       THEN /\ tasks' = [tasks EXCEPT ![t].pc = "stopping"]
            /\ UNCHANGED ws
       ELSE Processing(t)
    /\ UNCHANGED <<transferring, serverState, holder, starts, deletedStore, panelTransfer, notTransfer>>

\* Stopped without the test of the stop's result: the task goes on either way.
StoppedIgnoringFailure(t) ==
    /\ tasks[t].pc = "stopping"
    /\ \E ok \in BOOLEAN :
          /\ serverState' = IF ok THEN "offline" ELSE serverState
          /\ Processing(t)
    /\ UNCHANGED <<transferring, holder, starts, deletedStore, panelTransfer, notTransfer>>

\* stop_with_kill_timeout(15 s) returns (transfer.rs 132-145).
Stopped(t) ==
    /\ tasks[t].pc = "stopping"
    /\ \E ok \in BOOLEAN :
          IF ok
          THEN /\ serverState' = "offline"
               /\ Processing(t)
          ELSE /\ tasks' = [tasks EXCEPT ![t] = Ended(@, "tf_panel")]
               /\ UNCHANGED <<serverState, ws>>
    /\ UNCHANGED <<transferring, holder, starts, deletedStore, panelTransfer, notTransfer>>

\* After the last backup of the form loop: spawn progress_task, build the
\* request, suspend in join! (transfer.rs 375-431).
AfterForm(rec) ==
    IF rec.todo = {} THEN [rec EXCEPT !.pc = "join", !.progress = "running"]
    ELSE [rec EXCEPT !.pc = "form"]

\* InternalBackup::list returns (transfer.rs 306-311).
Listed(t) ==
    /\ tasks[t].pc = "list"
    /\ LET bl == Backups \ deletedStore IN
       tasks' = [tasks EXCEPT ![t] =
                    AfterForm([@ EXCEPT !.blist = bl,
                                        !.todo = FormSkip(tasks[t].requested, bl)])]
    /\ UNCHANGED <<transferring, serverState, holder, starts, ws, deletedStore, panelTransfer, notTransfer>>

\* One Wings backup of the form loop (transfer.rs 313-356): attached as a part, or
\* skipped because its file is not found or cannot be opened.
FormStep(t) ==
    /\ tasks[t].pc = "form"
    /\ LET b == Min(tasks[t].todo) IN
       \E r \in {"attached", "no_file", "open_failed"} :
          tasks' = [tasks EXCEPT ![t] =
                      AfterForm([@ EXCEPT
                          !.attached = IF r = "attached" THEN @ \union {b} ELSE @,
                          !.todo = FormSkip(tasks[t].todo \ {b}, tasks[t].blist)])]
    /\ UNCHANGED <<transferring, serverState, holder, starts, ws, deletedStore, panelTransfer, notTransfer>>

\* Before the next backup.delete(); or, past the loop, transfer.rs 499-517: the
\* task spawns the delayed `completed` sender and returns.
AfterDelete(rec) ==
    IF rec.dtodo = {} THEN Ended([rec EXCEPT !.completed = "sleeping"], "done")
    ELSE [rec EXCEPT !.pc = "delete"]

\* transfer.rs 499: transferring.store(false) once the task is past the delete loop.
FinishStore(rec) ==
    transferring' = IF rec.pc = "done" THEN FALSE ELSE transferring

\* Which results of join! send the task to transfer_failure (transfer.rs 434-465).
JoinFailed(a, c, r) == a # "ok" \/ c # "ok"

\* tokio::join!(archive_task, checksum_task, response) returns (transfer.rs 431-467).
Join(t) ==
    /\ tasks[t].pc = "join"
    /\ \E a \in {"ok", "err", "join_err"}, c \in {"ok", "err"}, r \in {"ok", "err"} :
          LET joined == [tasks[t] EXCEPT
                            !.failed = a # "ok" \/ c # "ok" \/ r # "ok",
                            !.progress = "stopped"]
              next == IF JoinFailed(a, c, r)
                      THEN Ended(joined, "tf_panel")
                      ELSE AfterDelete([joined EXCEPT
                              !.dtodo = DeleteSkip(joined.requested, joined.blist,
                                                   joined.deleteBackups)])
          IN /\ tasks' = [tasks EXCEPT ![t] = next]
             /\ FinishStore(next)
    /\ UNCHANGED <<serverState, holder, starts, ws, deletedStore, panelTransfer, notTransfer>>

\* backup.delete(&server) returns for one backup (transfer.rs 472-487).
DeleteStep(t) ==
    /\ tasks[t].pc = "delete"
    /\ LET b == Min(tasks[t].dtodo) IN
       \E ok \in BOOLEAN :
          LET next == AfterDelete([tasks[t] EXCEPT
                          !.deleted = IF ok THEN @ \union {b} ELSE @,
                          !.dtodo = DeleteSkip(tasks[t].dtodo \ {b}, tasks[t].blist,
                                               tasks[t].deleteBackups)])
          IN /\ tasks' = [tasks EXCEPT ![t] = next]
             /\ deletedStore' = IF ok THEN deletedStore \union {b} ELSE deletedStore
             /\ FinishStore(next)
    /\ UNCHANGED <<serverState, holder, starts, ws, panelTransfer, notTransfer>>

\* The detached task of transfer.rs 506-516, after its 1 s sleep.
CompletedSend(t) ==
    /\ tasks[t].completed = "sleeping"
    /\ ws' = Append(ws, Status(t, "completed"))
    /\ tasks' = [tasks EXCEPT ![t].completed = "sent"]
    /\ UNCHANGED <<transferring, serverState, holder, starts, deletedStore, panelTransfer, notTransfer>>

\* transfer_failure, first await: set_server_transfer(uuid, false) (transfer.rs 93-98).
TfPanel(t) ==
    /\ tasks[t].pc = "tf_panel"
    /\ panelTransfer' = FALSE
    /\ tasks' = [tasks EXCEPT ![t].pc = "tf_slot"]
    /\ UNCHANGED <<transferring, serverState, holder, starts, ws, deletedStore, notTransfer>>

\* transfer_failure: outgoing_transfer.write().await.take() (transfer.rs 99). A
\* value taken out of the slot is dropped, which aborts its current task.
TfSlot(t) ==
    /\ tasks[t].pc = "tf_slot"
    /\ IF holder = "slot"
       THEN /\ holder' = "dropped"
            /\ tasks' = [Abort(tasks, starts) EXCEPT ![t].pc = "tf_store"]
       ELSE /\ tasks' = [tasks EXCEPT ![t].pc = "tf_store"]
            /\ UNCHANGED holder
    /\ UNCHANGED <<transferring, serverState, starts, ws, deletedStore, panelTransfer, notTransfer>>

\* transfer_failure without its store: the flag is left as it was.
TfStoreSkipped(t) ==
    /\ tasks[t].pc = "tf_store"
    /\ tasks' = [tasks EXCEPT ![t].pc = "tf_send"]
    /\ UNCHANGED <<transferring, serverState, holder, starts, ws, deletedStore, panelTransfer, notTransfer>>

\* transfer_failure: transferring.store(false) (transfer.rs 101).
TfStore(t) ==
    /\ tasks[t].pc = "tf_store"
    /\ transferring' = FALSE
    /\ tasks' = [tasks EXCEPT ![t].pc = "tf_send"]
    /\ UNCHANGED <<serverState, holder, starts, ws, deletedStore, panelTransfer, notTransfer>>

\* transfer_failure: broadcast `failure` (transfer.rs 102-108), then the task returns.
TfSend(t) ==
    /\ tasks[t].pc = "tf_send"
    /\ ws' = Append(ws, Status(t, "failure"))
    /\ tasks' = [tasks EXCEPT ![t] = Ended(@, "done")]
    /\ UNCHANGED <<transferring, serverState, holder, starts, deletedStore, panelTransfer, notTransfer>>

\* progress_task sees transferring == false and breaks (transfer.rs 383-389).
ProgressStop(t) ==
    /\ tasks[t].progress = "running"
    /\ ~transferring
    /\ tasks' = [tasks EXCEPT ![t].progress = "stopped"]
    /\ UNCHANGED <<transferring, serverState, holder, starts, ws, deletedStore, panelTransfer, notTransfer>>

\* No create_backup is running.
S3Idle ==
    /\ s3pc = "idle"
    /\ size = 0
    /\ partSize = 0
    /\ nUrls = 0
    /\ idx = 0
    /\ remaining = 0
    /\ attempts = 0
    /\ parts = <<>>
    /\ uploaded = <<>>
    /\ acked = {}
    /\ scratch = FALSE

\* No Archive::extract is running.
ExtractIdle ==
    /\ xType = "none"
    /\ xEntries = <<>>
    /\ xPos = 0
    /\ xMade = {}
    /\ xRes = "idle"

\* No rename request is being served.
RenameIdle ==
    /\ rnRootIsDir = TRUE
    /\ rnFiles = <<>>
    /\ rnPos = 0
    /\ rnDone = {}
    /\ renamed_count = 0
    /\ rnStatus = "idle"

\* No archive is being created.
ArchiveIdle ==
    /\ arFormat = "none"
    /\ arTz = 0
    /\ arSrc = <<>>
    /\ arPos = 0
    /\ arEntries = <<>>
    /\ arOut = {}
    /\ arPhase = "idle"

\* No snapshot-adapter operation is running.
ResticIdle ==
    /\ rsOp = "none"
    /\ rsUuid = 0
    /\ rsPc = "idle"
    /\ CACHED_BACKUPS = {}
    /\ rsBackups = {}
    /\ rsLines = 0
    /\ snapshot_id = "none"
    /\ rsExit = "none"
    /\ rsRes = "none"

\* No exec request is being served.
ExecIdle ==
    /\ exCmd = "none" /\ exPerms = {} /\ exState = "offline" /\ exStdin = FALSE
    /\ exPc = "idle" /\ exChan = <<>> /\ exAlive = TRUE
    /\ exActivity = {} /\ exWritten = FALSE /\ exOutcome = "none"

\* No archive is open for a size estimate.
ZstdIdle == zHeader = <<>> /\ zPc = "idle" /\ zRes = <<>>

\* No BoundedReader exists.
ReaderIdle ==
    /\ brFileLen = 0 /\ brOffset = 0 /\ brSize = 0 /\ brPosition = 0 /\ brFd = 0
    /\ brBusy = 0 /\ brBuf = <<>> /\ brOut = <<>> /\ brLast = "none" /\ brPc = "idle"

\* No transfer pipeline exists.
PipeIdle ==
    /\ pSrcLen = 0 /\ pArchived = 0 /\ pArchive = "idle" /\ pIn = <<>>
    /\ pCk = "idle" /\ pChunk = <<>> /\ pHashed = <<>> /\ pForwarded = <<>>
    /\ pUp = <<>> /\ pSide = <<>> /\ pUpload = "idle" /\ pSent = <<>>

\* No zip extraction is running.
PoolIdle ==
    /\ poLen = 0 /\ poThreads = 0 /\ entry_index = 0
    /\ poWorker = <<>> /\ poClaims = <<>> /\ poExtracted = <<>>
    /\ poError = <<>> /\ poRes = <<"none">>

\* No 7z extraction is running.
SevenZIdle ==
    /\ szFolders = <<>> /\ szThreads = 0 /\ szTask = <<>> /\ szError = <<>>
    /\ szAfter = <<>> /\ szFailed = {} /\ szRes = <<"none">>

\* No archive task of a transfer exists.
ArchiveTaskIdle ==
    /\ atFormat = "none" /\ atWalk = 0 /\ atPos = 0 /\ atEnc = 0
    /\ atReaderDropped = FALSE /\ atAfter = 0 /\ atPc = "idle"

\* No create_zip is running.
ZipIdle ==
    /\ czItems = <<>> /\ czPos = 0 /\ czAdded = 0 /\ abort = FALSE
    /\ czFuture = "idle" /\ czClosure = "none"

\* The snapshot adapter was not used yet.
CacheIdle ==
    /\ cbCache = <<>> /\ cbRepo = {} /\ cbRefresh = <<>> /\ cbCall = <<>> /\ cbSpawned = 0

\* The local adapter is not used.
LocalIdle ==
    /\ lcDir = {} /\ lcUuid = 0 /\ lcPc = "idle"
    /\ lcDeleted = <<"none">> /\ lcListed = {} /\ lcFirst = <<"none">>

\* No OutgoingServerTransfer exists.
TransferIdle ==
    /\ transferring = FALSE
    /\ serverState = "offline"
    /\ holder = "dropped"
    /\ starts = 0
    /\ tasks = [t \in Tasks |-> IdleTask]
    /\ ws = <<>>
    /\ deletedStore = {}
    /\ panelTransfer = FALSE

TransferInit ==
    /\ S3Idle
    /\ ExtractIdle
    /\ RenameIdle
    /\ ArchiveIdle
    /\ ResticIdle
    /\ ExecIdle
    /\ ZstdIdle
    /\ ReaderIdle
    /\ PipeIdle
    /\ PoolIdle
    /\ SevenZIdle
    /\ ArchiveTaskIdle
    /\ ZipIdle
    /\ CacheIdle
    /\ LocalIdle
    /\ transferring \in BOOLEAN
    /\ serverState \in {"offline", "running"}
    /\ holder = "caller"
    /\ starts = 0
    /\ tasks = [t \in Tasks |-> IdleTask]
    /\ ws = <<>>
    /\ deletedStore = {}
    /\ panelTransfer = TRUE

TransferNext ==
    \/ Start
    \/ PlaceInSlot
    \/ DropTransfer
    \/ \E t \in Tasks : Cancel(t)
    \/ \E t \in Tasks : Begin(t)
    \/ \E t \in Tasks : Stopped(t)
    \/ \E t \in Tasks : Listed(t)
    \/ \E t \in Tasks : FormStep(t)
    \/ \E t \in Tasks : Join(t)
    \/ \E t \in Tasks : DeleteStep(t)
    \/ \E t \in Tasks : CompletedSend(t)
    \/ \E t \in Tasks : TfPanel(t)
    \/ \E t \in Tasks : TfSlot(t)
    \/ \E t \in Tasks : TfStore(t)
    \/ \E t \in Tasks : TfSend(t)
    \/ \E t \in Tasks : ProgressStop(t)

SpecTransfer == TransferInit /\ [][TransferNext]_vars

\* The runtime runs every task that can take a step: the transfer tasks, the
\* detached `completed` senders and the progress tasks. Calls of start and
\* drops of the value are up to the callers.
TransferFairness ==
    \A t \in Tasks :
        /\ WF_vars(Cancel(t)) /\ WF_vars(Begin(t)) /\ WF_vars(Stopped(t))
        /\ WF_vars(Listed(t)) /\ WF_vars(FormStep(t)) /\ WF_vars(Join(t))
        /\ WF_vars(DeleteStep(t)) /\ WF_vars(CompletedSend(t))
        /\ WF_vars(TfPanel(t)) /\ WF_vars(TfSlot(t)) /\ WF_vars(TfStore(t))
        /\ WF_vars(TfSend(t)) /\ WF_vars(ProgressStop(t))

SpecTransferLive == TransferInit /\ [][TransferNext]_vars /\ TransferFairness

\* ------------------------------------------------ transfer: properties

SentIn(w, t, s) == \E i \in 1..Len(w) : w[i] = Status(t, s)

\* The task of start() call t runs no more code and has no `completed` sender pending.
Over(t) == tasks[t].pc \in TerminalPcs /\ tasks[t].completed # "sleeping"

\* Task t calls backup.delete() in this step.
Deleting(t) == tasks[t].pc = "delete" /\ tasks'[t] # tasks[t]

\* C1: every start() call whose task broadcast `processing` ends with exactly one
\* of `completed` and `failure` broadcast.
C1_ExactlyOneTerminalStatus ==
    \A t \in Tasks :
        (Sent(t, "processing") /\ Over(t)) => (Sent(t, "completed") # Sent(t, "failure"))

\* C2: when one of the activities joined by join! (archive, checksum, upload
\* request) failed, no `completed` is broadcast or pending for that transfer.
C2_JoinFailureNeverCompletes ==
    \A t \in Tasks :
        tasks[t].failed => (tasks[t].completed = "none" /\ ~Sent(t, "completed"))

\* C3: a step that deletes a backup is taken by a transfer task all of whose joined
\* activities (archive, checksum, upload request) succeeded.
C3_DeleteOnlyAfterSuccess ==
    [][deletedStore' # deletedStore =>
         \E t \in Tasks : Deleting(t) /\ ~tasks[t].failed]_vars

\* C4: every backup a transfer task deletes was attached by it as a part of the
\* upload form.
C4_DeletedWereAttached ==
    [][\A b \in deletedStore' \ deletedStore :
         \E t \in Tasks : Deleting(t) /\ b \in tasks[t].attached]_vars

\* C5: once the OutgoingServerTransfer was dropped while its task was in flight
\* (after `processing`) and the task is gone, transferring is false and `failure`
\* was broadcast, `completed` was not.
C5_DropBroadcastsFailure ==
    (/\ holder = "dropped"
     /\ starts \in Tasks
     /\ tasks[starts].pc = "cancelled"
     /\ Sent(starts, "processing"))
    => (~transferring /\ Sent(starts, "failure") /\ ~Sent(starts, "completed"))

\* C6: from the `processing` broadcast of a transfer task up to its terminal status
\* broadcast, transferring is true.
C6_TransferringWhileInFlight ==
    \A t \in Tasks :
        (/\ Sent(t, "processing")
         /\ ~Sent(t, "completed")
         /\ ~Sent(t, "failure")
         /\ tasks[t].pc # "cancelled")
        => transferring

\* C7: in every step that broadcasts a terminal status (`completed` or `failure`),
\* transferring is false before the step and after it.
C7_FalseBeforeTerminalBroadcast ==
    [][\A t \in Tasks :
          (\/ SentIn(ws', t, "failure") /\ ~SentIn(ws, t, "failure")
           \/ SentIn(ws', t, "completed") /\ ~SentIn(ws, t, "completed"))
          => (~transferring /\ ~transferring')]_vars

\* C7 witness: both terminal statuses were broadcast, `failure` by a
\* transfer_failure that also told the panel.
C7_Witness ==
    /\ \E t \in Tasks : Sent(t, "failure")
    /\ \E t \in Tasks : Sent(t, "completed")
    /\ ~panelTransfer
    /\ ~transferring

\* ------------------------------------------- object-store create_backup

Min2(a, b) == IF a <= b THEN a ELSE b

\* The reader is never moved: every part is read from the start of the file.
PartOffsetStart(sz, rem) == 0

\* s3.rs 230: let offset = size - remaining_size;
PartOffset(sz, rem) == sz - rem

\* s3.rs 231: let part_size = std::cmp::min(remaining_size, part_size);
PartLen(rem, ps) == Min2(rem, ps)

\* The check of the bytes left over is missing.
LeftOverIgnored(rem) == FALSE

\* s3.rs 312: if remaining_size > 0 { return Err(..) }
LeftOver(rem) == rem > 0

\* s3.rs 125-224: base_dir(), the blocking archive task, the SHA-1 pass and
\* file.metadata(); each of them may fail and return with `?`.
S3Archive ==
    /\ s3pc = "archive"
    /\ \E ok \in BOOLEAN : s3pc' = IF ok THEN "urls" ELSE "err"
    /\ UNCHANGED <<size, partSize, nUrls, idx, remaining, attempts, parts, uploaded, acked, scratch, notS3>>

\* s3.rs 225-228: backup_upload_urls returns (part_size, part_urls), or fails.
S3Urls ==
    /\ s3pc = "urls"
    /\ \/ \E ps \in 0..MaxPartSize, n \in 0..MaxUrls :
            /\ partSize' = ps
            /\ nUrls' = n
            /\ remaining' = size
            /\ s3pc' = IF n = 0 THEN "finish" ELSE "put"
       \/ /\ s3pc' = "err"
          /\ UNCHANGED <<partSize, nUrls, remaining>>
    /\ UNCHANGED <<size, idx, attempts, parts, uploaded, acked, scratch, notS3>>

\* s3.rs 305-310, after the retry loop broke with an ETag: record the part and
\* go on to the next URL.
PartDone(etag) ==
    /\ parts' = Append(parts, [etag |-> etag, part_number |-> idx + 1])
    /\ uploaded' = Append(uploaded, [offset |-> PartOffset(size, remaining),
                                     len |-> PartLen(remaining, partSize)])
    /\ remaining' = remaining - PartLen(remaining, partSize)
    /\ idx' = idx + 1
    /\ attempts' = 0
    /\ s3pc' = IF idx + 1 < nUrls THEN "put" ELSE "finish"

\* Any answer of the object store, whatever its status, ends the retry loop.
PutAnswerAnyStatus(res) ==
    CASE res \in {"2xx", "status"} ->
            /\ acked' = IF res = "2xx" THEN acked \union {idx + 1} ELSE acked
            /\ \E etag \in {"", "etag"} : PartDone(etag)
      [] res = "error" ->
            /\ attempts' = attempts + 1
            /\ s3pc' = "sleep"
            /\ UNCHANGED <<idx, remaining, parts, uploaded, acked>>

\* s3.rs 271-302: what one answer to the PUT does to the retry loop.
PutAnswer(res) ==
    CASE res = "2xx" ->
            /\ acked' = acked \union {idx + 1}
            /\ \E etag \in {"", "etag"} : PartDone(etag)
      [] res = "status" ->
            /\ attempts' = attempts + 1
            /\ s3pc' = "put"
            /\ UNCHANGED <<idx, remaining, parts, uploaded, acked>>
      [] res = "error" ->
            /\ attempts' = attempts + 1
            /\ s3pc' = "sleep"
            /\ UNCHANGED <<idx, remaining, parts, uploaded, acked>>

\* The attempt counter is compared one attempt too late.
ExhaustedLate(a) == a > MaxAttempts + 1

\* s3.rs 237: if attempts > 50 { return Err(..) }
Exhausted(a) == a > MaxAttempts

\* s3.rs 235-303: one turn of the retry loop of part idx.
S3Put ==
    /\ s3pc = "put"
    /\ IF Exhausted(attempts + 1)
       THEN /\ s3pc' = "err"
            /\ attempts' = attempts + 1
            /\ UNCHANGED <<idx, remaining, parts, uploaded, acked>>
       ELSE \E res \in {"2xx", "status", "error"} : PutAnswer(res)
    /\ UNCHANGED <<size, partSize, nUrls, scratch, notS3>>

\* s3.rs 300: the sleep of attempts * 2 seconds is over.
S3Wake ==
    /\ s3pc = "sleep"
    /\ s3pc' = "put"
    /\ UNCHANGED <<size, partSize, nUrls, idx, remaining, attempts, parts, uploaded, acked, scratch, notS3>>

\* The scratch file is removed before the bytes left over are checked.
S3FinishRemoveFirst ==
    /\ s3pc = "finish"
    /\ \E removed \in BOOLEAN :
          /\ scratch' = ~removed
          /\ s3pc' = IF removed /\ ~LeftOver(remaining) THEN "ok" ELSE "err"
    /\ UNCHANGED <<size, partSize, nUrls, idx, remaining, attempts, parts, uploaded, acked, notS3>>

\* s3.rs 312-324: the check of remaining_size, remove_file, the result.
S3Finish ==
    /\ s3pc = "finish"
    /\ IF LeftOver(remaining)
       THEN s3pc' = "err" /\ UNCHANGED scratch
       ELSE \E removed \in BOOLEAN :
               /\ scratch' = ~removed
               /\ s3pc' = IF removed THEN "ok" ELSE "err"
    /\ UNCHANGED <<size, partSize, nUrls, idx, remaining, attempts, parts, uploaded, acked, notS3>>

\* create_backup once File::create returned the scratch file (s3.rs 124); size is
\* the length the archive will have when it is written.
S3Init ==
    /\ TransferIdle
    /\ ExtractIdle
    /\ RenameIdle
    /\ ArchiveIdle
    /\ ResticIdle
    /\ ExecIdle
    /\ ZstdIdle
    /\ ReaderIdle
    /\ PipeIdle
    /\ PoolIdle
    /\ SevenZIdle
    /\ ArchiveTaskIdle
    /\ ZipIdle
    /\ CacheIdle
    /\ LocalIdle
    /\ s3pc = "archive"
    /\ scratch = TRUE
    /\ size \in 0..MaxSize
    /\ partSize = 0
    /\ nUrls = 0
    /\ idx = 0
    /\ remaining = 0
    /\ attempts = 0
    /\ parts = <<>>
    /\ uploaded = <<>>
    /\ acked = {}

S3Next ==
    \/ S3Archive
    \/ S3Urls
    \/ S3Put
    \/ S3Wake
    \/ S3Finish

SpecS3 == S3Init /\ [][S3Next]_vars

\* ---------------------------------------------------- Archive::extract

ArchiveTypes == {"tar", "zip", "7z", "rar", "ddup"}

\* What the decoder yields for one position of the archive: an entry with an
\* absolute or relative path, whose destination path is or is not ignored by the
\* server's rules, of one kind; or, with bad, a malformed header.
ArchiveEntries ==
    [abs : BOOLEAN, ignored : BOOLEAN, kind : {"dir", "file", "symlink"}, bad : BOOLEAN]

RECURSIVE SeqsUpTo(_, _)
SeqsUpTo(S, n) ==
    IF n = 0 THEN {<<>>}
    ELSE LET shorter == SeqsUpTo(S, n - 1) IN
         shorter \union {Append(q, e) : q \in {r \in shorter : Len(r) = n - 1}, e \in S}

\* The outcome of one entry: what is created under destination, and whether the
\* extraction goes on ("next"), ends ("stop") or fails ("fail").
Outcome(made, go) == [made |-> made, go |-> go]

\* mod.rs 301-369. `while let Some(Ok(entry))` ends the loop at the first item that
\* is not Ok; absolute and ignored paths are passed over.
TarEntry(e) ==
    IF e.bad THEN Outcome({}, "stop")
    ELSE IF e.abs \/ e.ignored THEN Outcome({}, "next")
    ELSE CASE e.kind = "dir" -> Outcome({"dir"}, "next")
           [] e.kind = "file" -> Outcome({"parent", "file"}, "next")
           [] e.kind = "symlink" -> Outcome({"symlink"}, "next")

\* mod.rs 409-465. by_index(i)? fails on a malformed entry; enclosed_name() is None
\* for an absolute path.
ZipEntry(e) ==
    IF e.bad THEN Outcome({}, "fail")
    ELSE IF e.abs \/ e.ignored THEN Outcome({}, "next")
    ELSE CASE e.kind = "dir" -> Outcome({"dir"}, "next")
           [] e.kind = "file" -> Outcome({"parent", "file"}, "next")
           [] e.kind = "symlink" -> Outcome({"symlink"}, "next")

\* mod.rs 578-617. Every entry that is not a directory is written as a file.
SevenZipEntry(e) ==
    IF e.bad THEN Outcome({}, "fail")
    ELSE IF e.abs \/ e.ignored THEN Outcome({}, "next")
    ELSE IF e.kind = "dir" THEN Outcome({"dir"}, "next")
    ELSE Outcome({"parent", "file"}, "next")

\* mod.rs 492-535. read_header()? fails on a malformed header; absolute paths are
\* skipped; is_ignored is not called. Directories and parents are made through the
\* cap_std directory; the file goes through FileSystemWriter::new, which accepts
\* the destination or returns an error.
RarEntry(e, accepted) ==
    IF e.bad THEN Outcome({}, "fail")
    ELSE IF e.abs THEN Outcome({}, "next")
    ELSE IF e.kind = "dir" THEN Outcome({"dir"}, "next")
    ELSE IF accepted THEN Outcome({"parent", "file"}, "next")
    ELSE Outcome({"parent"}, "fail")

\* mod.rs 646-710. The archive is decoded as a whole by open_file (639); the path
\* is not tested for being absolute: the confined directory refuses it.
DdupEntry(e) ==
    IF e.bad THEN Outcome({}, "fail")
    ELSE IF e.ignored THEN Outcome({}, "next")
    ELSE IF e.abs THEN Outcome({}, IF e.kind = "symlink" THEN "next" ELSE "fail")
    ELSE CASE e.kind = "dir" -> Outcome({"dir"}, "next")
           [] e.kind = "file" -> Outcome({"file"}, "next")
           [] e.kind = "symlink" -> Outcome({"symlink"}, "next")

\* match self.archive (mod.rs 275).
EntryOutcome(type, e, accepted) ==
    CASE type = "tar" -> TarEntry(e)
      [] type = "zip" -> ZipEntry(e)
      [] type = "7z" -> SevenZipEntry(e)
      [] type = "rar" -> RarEntry(e, accepted)
      [] type = "ddup" -> DdupEntry(e)

\* One entry of the archive is decoded and handled.
ExtractEntry ==
    /\ xRes = "running"
    /\ xPos <= Len(xEntries)
    /\ \E accepted \in BOOLEAN :
          LET e == xEntries[xPos]
              o == EntryOutcome(xType, e, accepted \/ ~e.ignored)
          IN /\ xMade' = xMade \union {<<xPos, what>> : what \in o.made}
             /\ xRes' = CASE o.go = "next" -> "running"
                          [] o.go = "stop" -> "ok"
                          [] o.go = "fail" -> "err"
             /\ xPos' = xPos + 1
    /\ UNCHANGED <<xType, xEntries, notExtract>>

\* The decoder has no further entry: extract returns Ok (mod.rs 730).
ExtractEnd ==
    /\ xRes = "running"
    /\ xPos > Len(xEntries)
    /\ xRes' = "ok"
    /\ UNCHANGED <<xType, xEntries, xPos, xMade, notExtract>>

\* Archive::extract is called on an opened archive.
ExtractInit ==
    /\ TransferIdle
    /\ S3Idle
    /\ RenameIdle
    /\ ArchiveIdle
    /\ ResticIdle
    /\ ExecIdle
    /\ ZstdIdle
    /\ ReaderIdle
    /\ PipeIdle
    /\ PoolIdle
    /\ SevenZIdle
    /\ ArchiveTaskIdle
    /\ ZipIdle
    /\ CacheIdle
    /\ LocalIdle
    /\ xType \in ArchiveTypes
    /\ xEntries \in SeqsUpTo(ArchiveEntries, MaxEntries)
    /\ xPos = 1
    /\ xMade = {}
    /\ xRes = "running"

ExtractNext ==
    \/ ExtractEntry
    \/ ExtractEnd

SpecExtract == ExtractInit /\ [][ExtractNext]_vars

\* ------------------------------------------------------- rename route

\* One element of data.files with what the server's filesystem answers for it:
\* trivial (from or to is the root, or from = to), whether metadata(from) and
\* metadata(to) succeed, whether is_ignored holds of from and of to, and whether
\* rename_path succeeds.
RenameFiles ==
    [trivial : BOOLEAN, fromExists : BOOLEAN, toExists : BOOLEAN,
     fromIgnored : BOOLEAN, toIgnored : BOOLEAN, renameOk : BOOLEAN]

\* rename.rs 57-87: the file is passed over without calling rename_path.
RenameSkipped(f) ==
    \/ f.trivial
    \/ ~f.fromExists
    \/ f.toExists
    \/ f.fromIgnored
    \/ f.toIgnored

\* rename.rs 47-53: the root is tested; the loop starts or 417 is returned.
RenameRoot ==
    /\ rnStatus = "received"
    /\ rnStatus' = IF rnRootIsDir THEN "running" ELSE "417"
    /\ UNCHANGED <<rnRootIsDir, rnFiles, rnPos, rnDone, renamed_count, notRename>>

\* rename.rs 56-98: one turn of the loop.
RenameFile ==
    /\ rnStatus = "running"
    /\ rnPos <= Len(rnFiles)
    /\ LET f == rnFiles[rnPos]
           done == ~RenameSkipped(f) /\ f.renameOk
       IN /\ rnDone' = IF done THEN rnDone \union {rnPos} ELSE rnDone
          /\ renamed_count' = IF done THEN renamed_count + 1 ELSE renamed_count
    /\ rnPos' = rnPos + 1
    /\ UNCHANGED <<rnRootIsDir, rnFiles, rnStatus, notRename>>

\* rename.rs 100-108: the response.
RenameRespond ==
    /\ rnStatus = "running"
    /\ rnPos > Len(rnFiles)
    /\ rnStatus' = "200"
    /\ UNCHANGED <<rnRootIsDir, rnFiles, rnPos, rnDone, renamed_count, notRename>>

\* A rename request arrives.
RenameInit ==
    /\ TransferIdle
    /\ S3Idle
    /\ ExtractIdle
    /\ ArchiveIdle
    /\ ResticIdle
    /\ ExecIdle
    /\ ZstdIdle
    /\ ReaderIdle
    /\ PipeIdle
    /\ PoolIdle
    /\ SevenZIdle
    /\ ArchiveTaskIdle
    /\ ZipIdle
    /\ CacheIdle
    /\ LocalIdle
    /\ rnRootIsDir \in BOOLEAN
    /\ rnFiles \in SeqsUpTo(RenameFiles, MaxRenames)
    /\ rnPos = 1
    /\ rnDone = {}
    /\ renamed_count = 0
    /\ rnStatus = "received"

RenameNext ==
    \/ RenameRoot
    \/ RenameFile
    \/ RenameRespond

SpecRename == RenameInit /\ [][RenameNext]_vars

\* ------------------------------- Archive::create_tar / create_zip and back

\* Times are seconds since the Unix epoch on a reduced scale. DosEpoch stands for
\* 1980-01-01T00:00:00, the first instant zip::DateTime::from_date_and_time accepts
\* (mod.rs 962, 1015).
DosEpoch == 4
Mtimes == {1, 6, 7}
\* Offsets of the local timezone: whole multiples of two seconds, as real ones are.
TzOffsets == {0 - 2, 0, 2}
\* The mtime of what extraction creates without setting its mtime: the time of
\* the extraction, later than every mtime of the source.
Now == 9

\* st_mode permission bits: 0o644 and 0o4755 for files, 0o755 for directories,
\* 0o777 for symlinks.
FileModes == {420, 2541}
DirMode == 493
LinkMode == 511

\* Longest link name set_link_name fits into the header's linkname field (mod.rs 862).
TarLinkMax == 100
\* mod.rs 453: (1..=2048).contains(&entry.size())
ZipLinkMax == 2048
LinkLens == {1, TarLinkMax + 1, ZipLinkMax + 1}

\* What the walker yields: a regular file, a directory or a symlink, with its
\* metadata, whether the ignore rules match it, and what fails on it (opening
\* the file, reading its metadata).
SourceEntries ==
    [kind : {"file"}, mode : FileModes, mtime : Mtimes, linkLen : {0},
     ignored : BOOLEAN, fault : {"none", "open", "metadata"}]
    \union
    [kind : {"dir"}, mode : {DirMode}, mtime : Mtimes, linkLen : {0},
     ignored : BOOLEAN, fault : {"none", "metadata"}]
    \union
    [kind : {"symlink"}, mode : {LinkMode}, mtime : Mtimes, linkLen : LinkLens,
     ignored : BOOLEAN, fault : {"none"}]

\* mod.rs 959-960: chrono::DateTime::<chrono::Local>::from(mtime), as wall-clock seconds.
LocalTime(t, tz) == t + tz

\* mod.rs 962-969: from_date_and_time fails before 1980.
DosEncodable(t, tz) == LocalTime(t, tz) >= DosEpoch

\* The DOS timestamp keeps the wall-clock time of the node to two seconds.
DosTime(t, tz) == LocalTime(t, tz) - (LocalTime(t, tz) % 2)

\* mod.rs 88-107: without an extended-timestamp field, last_modified() is read
\* as a UTC wall-clock time (.and_utc().timestamp()).
zip_entry_get_modified_time(dos) == dos

\* FileOptions::unix_permissions keeps the nine permission bits (mod.rs 955, 1007).
ZipMode(mode) == mode % 512

Archived(i, kind, mode, mtime, linkLen) ==
    [i |-> i, kind |-> kind, mode |-> mode, mtime |-> mtime, linkLen |-> linkLen]

\* What one turn of the walker loop does with entry e: "skip" it, "append" it or
\* "fail" the operation. create_tar: mod.rs 814-868.
TarWalk(e) ==
    IF e.ignored \/ e.fault = "metadata" THEN "skip"
    ELSE CASE e.kind = "dir" -> "append"
           [] e.kind = "file" -> IF e.fault = "open" THEN "fail" ELSE "append"
           [] e.kind = "symlink" -> IF e.linkLen <= TarLinkMax THEN "append" ELSE "skip"

\* create_zip: mod.rs 977-1042.
ZipWalk(e, tz) ==
    IF e.ignored \/ e.fault = "metadata" THEN "skip"
    ELSE IF ~DosEncodable(e.mtime, tz) THEN "fail"
    ELSE IF e.kind = "file" /\ e.fault = "open" THEN "skip"
    ELSE "append"

Walk(fmt, e, tz) == IF fmt = "tar" THEN TarWalk(e) ELSE ZipWalk(e, tz)

\* The header written for entry i (mod.rs 829-842 for tar, 996-1023 for zip).
HeaderOf(fmt, i, e, tz) ==
    IF fmt = "tar" THEN Archived(i, e.kind, e.mode, e.mtime, e.linkLen)
    ELSE Archived(i, e.kind, ZipMode(e.mode), DosTime(e.mtime, tz), e.linkLen)

\* What extract creates for archive entry a: tar mod.rs 319-368, zip 428-465.
\* Only a regular file is given the mtime of its entry; a zip symlink is made only
\* for a target of 1..=2048 bytes.
Extracted(fmt, a) ==
    CASE a.kind = "dir" -> {Archived(a.i, "dir", a.mode, Now, 0)}
      [] a.kind = "file" ->
            {Archived(a.i, "file", a.mode,
                      IF fmt = "tar" THEN a.mtime ELSE zip_entry_get_modified_time(a.mtime), 0)}
      [] a.kind = "symlink" ->
            IF fmt = "zip" /\ a.linkLen > ZipLinkMax THEN {}
            ELSE {Archived(a.i, "symlink", LinkMode, Now, a.linkLen)}

\* One turn of the walker loop of create_tar / create_zip.
CreateEntry ==
    /\ arPhase = "create"
    /\ arPos <= Len(arSrc)
    /\ LET e == arSrc[arPos]
           w == Walk(arFormat, e, arTz)
       IN /\ arEntries' = IF w = "append"
                          THEN Append(arEntries, HeaderOf(arFormat, arPos, e, arTz))
                          ELSE arEntries
          /\ arPhase' = IF w = "fail" THEN "err" ELSE "create"
    /\ arPos' = arPos + 1
    /\ UNCHANGED <<arFormat, arTz, arSrc, arOut, notArchive>>

\* The walk is over: the archive is finished (mod.rs 891-894, 1060-1069) and is
\* handed to extract.
CreateFinish ==
    /\ arPhase = "create"
    /\ arPos > Len(arSrc)
    /\ arPhase' = "extract"
    /\ arPos' = 1
    /\ UNCHANGED <<arFormat, arTz, arSrc, arEntries, arOut, notArchive>>

\* extract handles one entry of the archive.
RoundTripEntry ==
    /\ arPhase = "extract"
    /\ arPos <= Len(arEntries)
    /\ arOut' = arOut \union Extracted(arFormat, arEntries[arPos])
    /\ arPos' = arPos + 1
    /\ UNCHANGED <<arFormat, arTz, arSrc, arEntries, arPhase, notArchive>>

\* extract returns Ok.
RoundTripEnd ==
    /\ arPhase = "extract"
    /\ arPos > Len(arEntries)
    /\ arPhase' = "ok"
    /\ UNCHANGED <<arFormat, arTz, arSrc, arPos, arEntries, arOut, notArchive>>

\* create_tar / create_zip is called on one source directory, on a node whose
\* local timezone has offset arTz.
ArchiveInit ==
    /\ TransferIdle
    /\ S3Idle
    /\ ExtractIdle
    /\ RenameIdle
    /\ ResticIdle
    /\ ExecIdle
    /\ ZstdIdle
    /\ ReaderIdle
    /\ PipeIdle
    /\ PoolIdle
    /\ SevenZIdle
    /\ ArchiveTaskIdle
    /\ ZipIdle
    /\ CacheIdle
    /\ LocalIdle
    /\ arFormat \in {"tar", "zip"}
    /\ arTz \in TzOffsets
    /\ arSrc \in SeqsUpTo(SourceEntries, MaxFiles)
    /\ arPos = 1
    /\ arEntries = <<>>
    /\ arOut = {}
    /\ arPhase = "create"

ArchiveNext ==
    \/ CreateEntry
    \/ CreateFinish
    \/ RoundTripEntry
    \/ RoundTripEnd

SpecArchive == ArchiveInit /\ [][ArchiveNext]_vars

\* ------------------------------------- snapshot adapter: create and restore

Uuids == 1..NumUuids

\* restic.rs 135 (create_backup) and 228 (restore_backup, through
\* get_backup_base_path 107-119): the cached list is read; restore fails for a
\* uuid that is not in it.
ResticList ==
    /\ rsPc = "list"
    /\ rsBackups' = CACHED_BACKUPS
    /\ IF rsOp = "restore" /\ rsUuid \notin CACHED_BACKUPS
       THEN rsPc' = "done" /\ rsRes' = "err"
       ELSE rsPc' = "spawn" /\ UNCHANGED rsRes
    /\ UNCHANGED <<rsOp, rsUuid, CACHED_BACKUPS, rsLines, snapshot_id, rsExit, notRestic>>

\* Command::new("restic")...spawn()? (restic.rs 137-162, 230-247).
ResticSpawn ==
    /\ rsPc = "spawn"
    /\ \E ok \in BOOLEAN :
          IF ok THEN rsPc' = "read" /\ UNCHANGED rsRes
          ELSE rsPc' = "done" /\ rsRes' = "err"
    /\ UNCHANGED <<rsOp, rsUuid, CACHED_BACKUPS, rsBackups, rsLines, snapshot_id, rsExit, notRestic>>

\* One line of the child's stdout (restic.rs 169-192, 251-281): only create_backup
\* keeps the snapshot_id of a summary line.
ResticLine ==
    /\ rsPc = "read"
    /\ rsLines < MaxLines
    /\ rsLines' = rsLines + 1
    /\ \E type \in {"status", "summary", "other"} :
          snapshot_id' = IF rsOp = "create" /\ type = "summary" THEN "id" ELSE snapshot_id
    /\ UNCHANGED <<rsOp, rsUuid, rsPc, CACHED_BACKUPS, rsBackups, rsExit, rsRes, notRestic>>

\* restic.rs 194-219: child.wait_with_output(), the test of the exit status, the
\* insertion into the cache, the result.
ResticStatusChecked(status) ==
    IF status # 0
    THEN rsRes' = "err" /\ UNCHANGED CACHED_BACKUPS
    ELSE /\ rsRes' = "ok"
         /\ CACHED_BACKUPS' = IF rsUuid \notin rsBackups
                              THEN CACHED_BACKUPS \union {rsUuid} ELSE CACHED_BACKUPS

\* The child closes its stdout and exits with some status: next_line() yields
\* Ok(None) or Err and the loop ends. create_backup goes on to wait for the child
\* (restic.rs 194); restore_backup returns Ok(()) right after the loop (283).
ResticEof ==
    /\ rsPc = "read"
    /\ \E status \in {0, 1} :
          /\ rsExit' = status
          /\ IF rsOp = "create" THEN ResticStatusChecked(status)
             ELSE rsRes' = "ok" /\ UNCHANGED CACHED_BACKUPS
    /\ rsPc' = "done"
    /\ UNCHANGED <<rsOp, rsUuid, rsBackups, rsLines, snapshot_id, notRestic>>

\* create_backup or restore_backup is called while the cache holds a map.
ResticInit ==
    /\ TransferIdle
    /\ S3Idle
    /\ ExtractIdle
    /\ RenameIdle
    /\ ArchiveIdle
    /\ ExecIdle
    /\ ZstdIdle
    /\ ReaderIdle
    /\ PipeIdle
    /\ PoolIdle
    /\ SevenZIdle
    /\ ArchiveTaskIdle
    /\ ZipIdle
    /\ CacheIdle
    /\ LocalIdle
    /\ rsOp \in {"create", "restore"}
    /\ rsUuid \in Uuids
    /\ rsPc = "list"
    /\ CACHED_BACKUPS \in SUBSET Uuids
    /\ rsBackups = {}
    /\ rsLines = 0
    /\ snapshot_id = "none"
    /\ rsExit = "none"
    /\ rsRes = "none"

ResticNext ==
    \/ ResticList
    \/ ResticSpawn
    \/ ResticLine
    \/ ResticEof

SpecRestic == ResticInit /\ [][ResticNext]_vars

\* ------------------------------------------------------- ssh exec: the model

\* "tar_x": tar -xzpPf <archive> -C <dest>;  "tar_t": tar with another first
\* flag;  "cd_tar": cd <base> tar <args...>;  "say": anything else.
ExecCommands == {"tar_x", "tar_t", "cd_tar", "say"}

Permissions == {"FileCreate", "FileArchive", "ControlConsole"}

ServerStates == {"offline", "starting", "running", "stopping"}

\* The channel operations `out` are attempted in order.  An operation fails
\* only when the SSH session is gone, after which every later one fails too,
\* so the client receives a prefix of `out`.
ExecSay(out) ==
    \E k \in 0..Len(out) :
        /\ exChan' = exChan \o SubSeq(out, 1, k)
        /\ exAlive' = (k = Len(out))

\* The request ends after the channel operations `out`.
ExecFinish(out, outcome) ==
    /\ ExecSay(out)
    /\ exPc' = "done"
    /\ exOutcome' = outcome

\* channel.data, the match on the command's tokens and the permission check
\* of the branch that matched.
ExecDispatch ==
    /\ exPc = "start" /\ exAlive
    /\ LET branch == CASE exCmd = "tar_x" -> "extract"
                       [] exCmd = "cd_tar" -> "compress"
                       [] OTHER -> "console"
           needed == CASE exCmd = "tar_x" -> {"FileCreate"}
                       [] exCmd = "cd_tar" -> {"FileArchive"}
                       [] OTHER -> {}
       IN  \/ /\ needed \subseteq exPerms
              /\ ExecSay(<<"data">>)
              /\ exPc' = IF exAlive' THEN branch ELSE "done"
              /\ exOutcome' = IF exAlive' THEN exOutcome ELSE "failed"
           \/ /\ ~(needed \subseteq exPerms)
              /\ ExecFinish(<<"data", "Permission denied.", "exit1", "close">>, "denied")
    /\ UNCHANGED <<exCmd, exPerms, exState, exStdin, exActivity, exWritten>>
    /\ UNCHANGED notExec

\* tar -xzpPf: Archive::open, the FileDecompress record, extract.
ExecExtract ==
    /\ exPc = "extract" /\ exAlive
    /\ \E opened, extracted \in BOOLEAN :
        /\ exActivity' = IF opened THEN exActivity \cup {"FileDecompress"} ELSE exActivity
        /\ IF opened /\ extracted
           THEN ExecFinish(<<"exit0", "close">>, "succeeded")
           ELSE ExecFinish(<<"exit1", "close">>, "failed")
    /\ UNCHANGED <<exCmd, exPerms, exState, exStdin, exWritten>>
    /\ UNCHANGED notExec

\* cd <base> tar: the FileCompress record, the destination writer, the
\* extension's compression type, create_tar.
ExecCompress ==
    /\ exPc = "compress" /\ exAlive
    /\ exActivity' = exActivity \cup {"FileCompress"}
    /\ \E result \in {"ok", "writer", "extension", "create_tar"} :
        IF result = "ok"
        THEN ExecFinish(<<"Archive created successfully.", "exit0", "close">>, "succeeded")
        ELSE ExecFinish(<<"exit1", "close">>, "failed")
    /\ UNCHANGED <<exCmd, exPerms, exState, exStdin, exWritten>>
    /\ UNCHANGED notExec

\* ExecConsole without the test of the server's state and of the stdin handle.
ExecConsoleAnyState ==
    /\ exPc = "console" /\ exAlive
    /\ IF "ControlConsole" \in exPerms
       THEN \E sent \in BOOLEAN :
               /\ exWritten' = sent
               /\ exActivity' = IF sent THEN exActivity \cup {"ConsoleCommand"}
                                ELSE exActivity
               /\ ExecFinish(<<"exit0", "close">>,
                             IF sent THEN "succeeded" ELSE "failed")
       ELSE /\ ExecFinish(<<"Permission denied.", "exit0", "close">>, "denied")
            /\ UNCHANGED <<exWritten, exActivity>>
    /\ UNCHANGED <<exCmd, exPerms, exState, exStdin>>
    /\ UNCHANGED notExec

\* Every other command: the command line goes to the container's stdin.
ExecConsole ==
    /\ exPc = "console" /\ exAlive
    /\ IF "ControlConsole" \in exPerms
       THEN IF exState # "offline" /\ exStdin
            THEN \E sent \in BOOLEAN :
                    /\ exWritten' = sent
                    /\ exActivity' = IF sent THEN exActivity \cup {"ConsoleCommand"}
                                     ELSE exActivity
                    /\ ExecFinish(<<"exit0", "close">>,
                                  IF sent THEN "succeeded" ELSE "failed")
            ELSE /\ ExecFinish(<<"Server is not running.", "exit0", "close">>, "failed")
                 /\ UNCHANGED <<exWritten, exActivity>>
       ELSE /\ ExecFinish(<<"Permission denied.", "exit0", "close">>, "denied")
            /\ UNCHANGED <<exWritten, exActivity>>
    /\ UNCHANGED <<exCmd, exPerms, exState, exStdin>>
    /\ UNCHANGED notExec

ExecInit ==
    /\ S3Idle
    /\ ExtractIdle
    /\ RenameIdle
    /\ ArchiveIdle
    /\ ResticIdle
    /\ TransferIdle
    /\ ZstdIdle
    /\ ReaderIdle
    /\ PipeIdle
    /\ PoolIdle
    /\ SevenZIdle
    /\ ArchiveTaskIdle
    /\ ZipIdle
    /\ CacheIdle
    /\ LocalIdle
    /\ exCmd \in ExecCommands
    /\ exPerms \in SUBSET Permissions
    /\ exState \in ServerStates
    /\ exStdin \in BOOLEAN
    /\ exPc = "start" /\ exChan = <<>> /\ exAlive = TRUE
    /\ exActivity = {} /\ exWritten = FALSE /\ exOutcome = "none"

ExecNext == ExecDispatch \/ ExecExtract \/ ExecCompress \/ ExecConsole

SpecExec == ExecInit /\ [][ExecNext]_vars

\* ---------------------------------------- estimated_size (zstd): the model

ZstdMagic == <<40, 181, 47, 253>>

\* Frame_Header_Descriptor bytes: every Frame_Content_Size_flag (bits 7-6),
\* Single_Segment_flag (bit 5) and Dictionary_ID_flag (bits 1-0).
Descriptors == {fcs * 64 + ss * 32 + did : fcs \in 0..3, ss \in 0..1, did \in 0..3}

\* The bytes that follow the descriptor: at most two of them are not zero.
Payloads ==
    {[i \in 1..(HeaderLen - 5) |-> IF i \in nz THEN 7 ELSE 0] :
        nz \in {s \in SUBSET (1..(HeaderLen - 5)) : Cardinality(s) <= 2}}

ZstdHeaders ==
    {magic \o <<d>> \o p : magic \in {ZstdMagic, <<40, 181, 47, 0>>},
                           d \in Descriptors, p \in Payloads}

\* u{16,32,64}::from_le_bytes of the first n bytes of buf, as u64.
from_le_bytes(buf, n) == [i \in 1..8 |-> IF i <= n THEN buf[i] ELSE 0]

\* The Zstd arm of Archive::estimated_size.
estimated_size(header) ==
    IF SubSeq(header, 1, 4) # ZstdMagic THEN <<>>
    ELSE LET frame_header_descriptor == header[5]
             fcs_flag == frame_header_descriptor % 4
             single_segment == (frame_header_descriptor \div 32) % 2 = 1
             size_bytes == CASE fcs_flag = 0 -> 1
                             [] fcs_flag = 1 -> 2
                             [] fcs_flag = 2 -> 4
                             [] fcs_flag = 3 -> 8
             size_buffer == SubSeq(header, 6, 13)
         IN  IF fcs_flag = 0 /\ ~single_segment THEN <<>>
             ELSE <<from_le_bytes(size_buffer, size_bytes)>>

ZstdEstimate ==
    /\ zPc = "opened"
    /\ zRes' = estimated_size(zHeader)
    /\ zPc' = "done"
    /\ UNCHANGED zHeader
    /\ UNCHANGED notZstd

ZstdInit ==
    /\ S3Idle
    /\ ExtractIdle
    /\ RenameIdle
    /\ ArchiveIdle
    /\ ResticIdle
    /\ ExecIdle
    /\ TransferIdle
    /\ ReaderIdle
    /\ PipeIdle
    /\ PoolIdle
    /\ SevenZIdle
    /\ ArchiveTaskIdle
    /\ ZipIdle
    /\ CacheIdle
    /\ LocalIdle
    /\ zHeader \in ZstdHeaders
    /\ zPc = "opened"
    /\ zRes = <<>>

ZstdNext == ZstdEstimate

SpecZstd == ZstdInit /\ [][ZstdNext]_vars

\* --------------------------------------------------- BoundedReader: the model

\* to_read of poll_read, for a caller's buffer with `buffer_space` bytes left.
to_read_unbounded(buffer_space) == buffer_space

to_read(buffer_space) == Min2(buffer_space, brSize - brPosition)

\* The bytes fd+1 .. fd+n of the file.
FileBytes(fd, n) == [i \in 1..n |-> fd + i]

\* Ready(Ok(bytes_read)): the File copied `bytes` into temp_buf.
BrDeliver(bytes) ==
    /\ brPosition' = brPosition + Len(bytes)
    /\ brOut' = brOut \o bytes
    /\ brLast' = Len(bytes)

\* poll_read at or past the bound: Ready(Ok(())) with nothing put.
BrPollDone ==
    /\ brPc = "open"
    /\ brPosition >= brSize
    /\ brLast' = 0
    /\ UNCHANGED <<brFileLen, brOffset, brSize, brPosition, brFd, brBusy, brBuf, brOut, brPc>>
    /\ UNCHANGED notReader

\* poll_read when the File is idle with an empty buffer: the File starts a
\* blocking read of temp_buf's length and the poll is Pending.
BrPollStart ==
    /\ brPc = "open"
    /\ brPosition < brSize
    /\ brBusy = 0 /\ brBuf = <<>>
    /\ \E buffer_space \in 1..MaxSpace :
        brBusy' = to_read(buffer_space)
    /\ UNCHANGED <<brFileLen, brOffset, brSize, brPosition, brFd, brBuf, brOut, brLast, brPc>>
    /\ UNCHANGED notReader

\* poll_read when the File's blocking read has finished: it read n bytes
\* (fewer than asked is allowed, none only at the end of the file), the File
\* copies as many as fit into the new temp_buf and keeps the rest.
BrPollComplete ==
    /\ brPc = "open"
    /\ brPosition < brSize
    /\ brBusy > 0
    /\ \E buffer_space \in 1..MaxSpace, failed \in BOOLEAN :
        IF failed
        THEN /\ brPc' = "error"
             /\ brBusy' = 0
             /\ UNCHANGED <<brPosition, brFd, brBuf, brOut, brLast>>
        ELSE \E n \in 0..Min2(brBusy, brFileLen - brFd) :
                /\ (n = 0) => (brFd >= brFileLen)
                /\ LET read == FileBytes(brFd, n)
                       m == Min2(n, to_read(buffer_space))
                   IN  /\ BrDeliver(SubSeq(read, 1, m))
                       /\ brBuf' = SubSeq(read, m + 1, n)
                /\ brFd' = brFd + n
                /\ brBusy' = 0
                /\ brPc' = brPc
    /\ UNCHANGED <<brFileLen, brOffset, brSize>>
    /\ UNCHANGED notReader

\* poll_read when the File still holds bytes of an earlier read.
BrPollBuffered ==
    /\ brPc = "open"
    /\ brPosition < brSize
    /\ brBusy = 0 /\ brBuf # <<>>
    /\ \E buffer_space \in 1..MaxSpace :
        LET m == Min2(Len(brBuf), to_read(buffer_space))
        IN  /\ BrDeliver(SubSeq(brBuf, 1, m))
            /\ brBuf' = SubSeq(brBuf, m + 1, Len(brBuf))
    /\ UNCHANGED <<brFileLen, brOffset, brSize, brFd, brBusy, brPc>>
    /\ UNCHANGED notReader

\* new_with_bytes_written: seek to the offset, then clone the handle.
ReaderInit ==
    /\ S3Idle
    /\ ExtractIdle
    /\ RenameIdle
    /\ ArchiveIdle
    /\ ResticIdle
    /\ ExecIdle
    /\ ZstdIdle
    /\ TransferIdle
    /\ PipeIdle
    /\ PoolIdle
    /\ SevenZIdle
    /\ ArchiveTaskIdle
    /\ ZipIdle
    /\ CacheIdle
    /\ LocalIdle
    /\ brFileLen \in 0..MaxFileLen
    /\ brOffset \in 0..brFileLen
    /\ brSize \in 0..MaxFileLen
    /\ brPosition = 0
    /\ brFd = brOffset
    /\ brBusy = 0 /\ brBuf = <<>> /\ brOut = <<>> /\ brLast = "none" /\ brPc = "open"

ReaderNext == BrPollDone \/ BrPollStart \/ BrPollComplete \/ BrPollBuffered

SpecReader == ReaderInit /\ [][ReaderNext]_vars

\* ------------------------------------------- transfer pipeline: the model

\* Sha256 of the bytes fed to the hasher: the digest stands for them.
Digest(bytes) == bytes

\* The archive write into a pipe without reader waits instead of failing.
ArchiveWriteWaits ==
    /\ pArchive = "running"
    /\ pArchived < pSrcLen
    /\ pCk \notin {"done", "error"}
    /\ Len(pIn) < PipeCap
    /\ pIn' = Append(pIn, pArchived + 1)
    /\ pArchived' = pArchived + 1
    /\ UNCHANGED <<pSrcLen, pArchive, pCk, pChunk, pHashed, pForwarded, pUp, pSide, pUpload, pSent>>
    /\ UNCHANGED notPipe

\* The blocking archive task writes the next byte into the archive pipe; the
\* write fails once the checksum task has dropped the pipe's reader.
ArchiveWrite ==
    /\ pArchive = "running"
    /\ pArchived < pSrcLen
    /\ IF pCk \in {"done", "error"}
       THEN /\ pArchive' = "failed"
            /\ UNCHANGED <<pArchived, pIn>>
       ELSE /\ Len(pIn) < PipeCap
            /\ pIn' = Append(pIn, pArchived + 1)
            /\ pArchived' = pArchived + 1
            /\ UNCHANGED pArchive
    /\ UNCHANGED <<pSrcLen, pCk, pChunk, pHashed, pForwarded, pUp, pSide, pUpload, pSent>>
    /\ UNCHANGED notPipe

\* The archive task returns an error (sync_base_dir, an append, the final
\* flush) and drops its writer.
ArchiveFail ==
    /\ pArchive = "running"
    /\ pArchive' = "failed"
    /\ UNCHANGED <<pSrcLen, pArchived, pIn, pCk, pChunk, pHashed, pForwarded, pUp, pSide, pUpload, pSent>>
    /\ UNCHANGED notPipe

\* The archive task has written everything, returns Ok and drops its writer.
ArchiveFinish ==
    /\ pArchive = "running"
    /\ pArchived = pSrcLen
    /\ pArchive' = "ok"
    /\ UNCHANGED <<pSrcLen, pArchived, pIn, pCk, pChunk, pHashed, pForwarded, pUp, pSide, pUpload, pSent>>
    /\ UNCHANGED notPipe

\* Every read of an empty pipe is taken for the end of the archive.
CkReadEmptyIsEof ==
    /\ pCk = "read"
    /\ IF pIn # <<>>
       THEN \E n \in 1..Min2(BufLen, Len(pIn)) :
               /\ pChunk' = SubSeq(pIn, 1, n)
               /\ pHashed' = pHashed \o SubSeq(pIn, 1, n)
               /\ pIn' = SubSeq(pIn, n + 1, Len(pIn))
               /\ pCk' = "forward"
       ELSE /\ pCk' = "digest"
            /\ UNCHANGED <<pChunk, pHashed, pIn>>
    /\ UNCHANGED <<pSrcLen, pArchived, pArchive, pForwarded, pUp, pSide, pUpload, pSent>>
    /\ UNCHANGED notPipe

\* checksummed_reader.read(&mut buffer) returns: some bytes, which are fed to
\* the hasher, or 0 when the pipe is empty and its writer was dropped.
CkRead ==
    /\ pCk = "read"
    /\ IF pIn # <<>>
       THEN \E n \in 1..Min2(BufLen, Len(pIn)) :
               /\ pChunk' = SubSeq(pIn, 1, n)
               /\ pHashed' = pHashed \o SubSeq(pIn, 1, n)
               /\ pIn' = SubSeq(pIn, n + 1, Len(pIn))
               /\ pCk' = "forward"
       ELSE /\ pArchive \in {"ok", "failed"}
            /\ pCk' = "digest"
            /\ UNCHANGED <<pChunk, pHashed, pIn>>
    /\ UNCHANGED <<pSrcLen, pArchived, pArchive, pForwarded, pUp, pSide, pUpload, pSent>>
    /\ UNCHANGED notPipe

\* writer.write_all(&buffer[..bytes_read]) makes progress: part of the chunk
\* enters the upload pipe, or the write fails because the request is gone.
CkForward ==
    /\ pCk = "forward"
    /\ IF pUpload = "closed"
       THEN /\ pCk' = "error"
            /\ UNCHANGED <<pChunk, pForwarded, pUp>>
       ELSE \E k \in 1..Min2(Len(pChunk), PipeCap - Len(pUp)) :
               /\ pUp' = pUp \o SubSeq(pChunk, 1, k)
               /\ pForwarded' = pForwarded \o SubSeq(pChunk, 1, k)
               /\ pChunk' = SubSeq(pChunk, k + 1, Len(pChunk))
               /\ pCk' = IF k = Len(pChunk) THEN "read" ELSE "forward"
    /\ UNCHANGED <<pSrcLen, pArchived, pArchive, pIn, pHashed, pSide, pUpload, pSent>>
    /\ UNCHANGED notPipe

\* checksum_writer.write_all(hex digest) after the loop.
CkDigest ==
    /\ pCk = "digest"
    /\ IF pUpload = "closed"
       THEN /\ pCk' = "error"
            /\ UNCHANGED pSide
       ELSE /\ pSide' = <<Digest(pHashed)>>
            /\ pCk' = "done"
    /\ UNCHANGED <<pSrcLen, pArchived, pArchive, pIn, pChunk, pHashed, pForwarded, pUp, pUpload, pSent>>
    /\ UNCHANGED notPipe

\* The request body reads a byte of the archive part.
UploadRead ==
    /\ pUpload = "open"
    /\ pUp # <<>>
    /\ pSent' = Append(pSent, Head(pUp))
    /\ pUp' = Tail(pUp)
    /\ UNCHANGED <<pSrcLen, pArchived, pArchive, pIn, pCk, pChunk, pHashed, pForwarded, pSide, pUpload>>
    /\ UNCHANGED notPipe

\* The request fails and drops the readers of both pipes.
UploadFail ==
    /\ pUpload = "open"
    /\ pUpload' = "closed"
    /\ UNCHANGED <<pSrcLen, pArchived, pArchive, pIn, pCk, pChunk, pHashed, pForwarded, pUp, pSide, pSent>>
    /\ UNCHANGED notPipe

\* The request body has read both parts to their end (the checksum task has
\* returned and dropped both writers) and the request completes.
UploadFinish ==
    /\ pUpload = "open"
    /\ pCk = "done"
    /\ pUp = <<>>
    /\ pUpload' = "finished"
    /\ UNCHANGED <<pSrcLen, pArchived, pArchive, pIn, pCk, pChunk, pHashed, pForwarded, pUp, pSide, pSent>>
    /\ UNCHANGED notPipe

PipeInit ==
    /\ S3Idle
    /\ ExtractIdle
    /\ RenameIdle
    /\ ArchiveIdle
    /\ ResticIdle
    /\ ExecIdle
    /\ ZstdIdle
    /\ ReaderIdle
    /\ TransferIdle
    /\ PoolIdle
    /\ SevenZIdle
    /\ ArchiveTaskIdle
    /\ ZipIdle
    /\ CacheIdle
    /\ LocalIdle
    /\ pSrcLen \in 0..MaxBytes
    /\ pArchived = 0 /\ pArchive = "running" /\ pIn = <<>>
    /\ pCk = "read" /\ pChunk = <<>> /\ pHashed = <<>> /\ pForwarded = <<>>
    /\ pUp = <<>> /\ pSide = <<>> /\ pUpload = "open" /\ pSent = <<>>

PipeNext ==
    \/ ArchiveWrite \/ ArchiveFail \/ ArchiveFinish
    \/ CkRead \/ CkForward \/ CkDigest
    \/ UploadRead \/ UploadFail \/ UploadFinish

SpecPipe == PipeInit /\ [][PipeNext]_vars

\* The blocking pool runs the archive task, the runtime polls the checksum
\* task whenever its pipe is ready, and the peer reads what it is sent until
\* it fails or the request ends.
PipeFairness ==
    /\ WF_vars(ArchiveWrite) /\ WF_vars(ArchiveFinish)
    /\ WF_vars(CkRead) /\ WF_vars(CkForward) /\ WF_vars(CkDigest)
    /\ WF_vars(UploadRead) /\ WF_vars(UploadFinish)

SpecPipeLive == PipeInit /\ [][PipeNext]_vars /\ PipeFairness

\* -------------------------------------------- parallel zip extraction: the model

\* Top of a worker's loop: it stops when the error slot is taken.
PoCheck(w) ==
    /\ poWorker[w].pc = "check"
    /\ poWorker' = [poWorker EXCEPT ![w].pc = IF poError # <<>> THEN "done" ELSE "claim"]
    /\ UNCHANGED <<poLen, poThreads, entry_index, poClaims, poExtracted, poError, poRes>>
    /\ UNCHANGED notPool

\* Every worker counts for itself instead of sharing entry_index.
PoClaimOwnCounter(w) ==
    /\ poWorker[w].pc = "claim"
    /\ LET i == Cardinality({k \in 1..Len(poClaims) : poClaims[k][1] = w}) IN
       IF i >= poLen
       THEN /\ poWorker' = [poWorker EXCEPT ![w].pc = "done"]
            /\ UNCHANGED poClaims
       ELSE /\ poWorker' = [poWorker EXCEPT ![w] = [pc |-> "entry", i |-> i]]
            /\ poClaims' = Append(poClaims, <<w, i>>)
    /\ UNCHANGED <<poLen, poThreads, entry_index, poExtracted, poError, poRes>>
    /\ UNCHANGED notPool

\* entry_index.fetch_add(1, SeqCst) and the test against archive.len().
PoClaim(w) ==
    /\ poWorker[w].pc = "claim"
    /\ LET i == entry_index IN
       /\ entry_index' = entry_index + 1
       /\ IF i >= poLen
          THEN /\ poWorker' = [poWorker EXCEPT ![w].pc = "done"]
               /\ UNCHANGED poClaims
          ELSE /\ poWorker' = [poWorker EXCEPT ![w] = [pc |-> "entry", i |-> i]]
               /\ poClaims' = Append(poClaims, <<w, i>>)
    /\ UNCHANGED <<poLen, poThreads, poExtracted, poError, poRes>>
    /\ UNCHANGED notPool

\* The worker handles entry i: it is written, skipped (no enclosed name,
\* absolute, ignored, neither directory nor file) or fails with `?`.
PoEntry(w) ==
    /\ poWorker[w].pc = "entry"
    /\ \E r \in {"written", "skipped", "error"} :
        /\ poExtracted' = IF r = "written" THEN Append(poExtracted, poWorker[w].i)
                          ELSE poExtracted
        /\ poWorker' = [poWorker EXCEPT ![w].pc = IF r = "error" THEN "failed" ELSE "check"]
    /\ UNCHANGED <<poLen, poThreads, entry_index, poClaims, poError, poRes>>
    /\ UNCHANGED notPool

\* if let Err(err) = run() { error_clone.write().unwrap().replace(err); }
PoStore(w) ==
    /\ poWorker[w].pc = "failed"
    /\ poError' = <<w>>
    /\ poWorker' = [poWorker EXCEPT ![w].pc = "done"]
    /\ UNCHANGED <<poLen, poThreads, entry_index, poClaims, poExtracted, poRes>>
    /\ UNCHANGED notPool

\* The scope ends when every worker has returned; the coordinator takes the
\* error out of the slot.
PoJoin ==
    /\ poRes = <<"none">>
    /\ poThreads > 0
    /\ \A w \in 1..poThreads : poWorker[w].pc = "done"
    /\ poRes' = IF poError # <<>> THEN <<"err", poError[1]>> ELSE <<"ok">>
    /\ poError' = <<>>
    /\ UNCHANGED <<poLen, poThreads, entry_index, poWorker, poClaims, poExtracted>>
    /\ UNCHANGED notPool

PoolInit ==
    /\ S3Idle
    /\ ExtractIdle
    /\ RenameIdle
    /\ ArchiveIdle
    /\ ResticIdle
    /\ ExecIdle
    /\ ZstdIdle
    /\ ReaderIdle
    /\ PipeIdle
    /\ TransferIdle
    /\ SevenZIdle
    /\ ArchiveTaskIdle
    /\ ZipIdle
    /\ CacheIdle
    /\ LocalIdle
    /\ poLen \in 0..MaxZipEntries
    /\ poThreads \in 1..MaxThreads
    /\ entry_index = 0
    /\ poWorker = [w \in 1..poThreads |-> [pc |-> "check", i |-> 0]]
    /\ poClaims = <<>> /\ poExtracted = <<>>
    /\ poError = <<>> /\ poRes = <<"none">>

PoolNext ==
    \/ \E w \in 1..poThreads : PoCheck(w) \/ PoClaim(w) \/ PoEntry(w) \/ PoStore(w)
    \/ PoJoin

SpecPool == PoolInit /\ [][PoolNext]_vars

\* -------------------------------------------- parallel 7z extraction: the model

\* The folder tasks a pool thread is running.
SzBusy == {f \in 1..Len(szFolders) : szTask[f].pc \in {"running", "failed"}}

\* A free thread of the pool takes the task of folder f: the task returns at
\* once when the error slot is taken, else it opens the folder's decoder.
SzStart(f) ==
    /\ szTask[f].pc = "queued"
    /\ Cardinality(SzBusy) < szThreads
    /\ szTask' = [szTask EXCEPT ![f].pc = IF szError # <<>> THEN "done" ELSE "running"]
    /\ UNCHANGED <<szFolders, szThreads, szError, szAfter, szFailed, szRes>>
    /\ UNCHANGED notSevenZ

\* for_each_entries hands the next entry of folder f to the closure: it is
\* written or skipped (Ok(true)), or fails and ends the iteration.
SzEntry(f) ==
    /\ szTask[f].pc = "running"
    /\ szTask[f].n < szFolders[f]
    /\ szAfter' = [szAfter EXCEPT ![f] = IF szError # <<>> THEN @ + 1 ELSE @]
    /\ \E ok \in BOOLEAN :
        IF ok
        THEN /\ szTask' = [szTask EXCEPT ![f].n = @ + 1]
             /\ UNCHANGED szFailed
        ELSE /\ szTask' = [szTask EXCEPT ![f] = [pc |-> "failed", n |-> @.n + 1]]
             /\ szFailed' = szFailed \cup {f}
    /\ UNCHANGED <<szFolders, szThreads, szError, szRes>>
    /\ UNCHANGED notSevenZ

\* for_each_entries returns Ok after the last entry of folder f.
SzFolderDone(f) ==
    /\ szTask[f].pc = "running"
    /\ szTask[f].n = szFolders[f]
    /\ szTask' = [szTask EXCEPT ![f].pc = "done"]
    /\ UNCHANGED <<szFolders, szThreads, szError, szAfter, szFailed, szRes>>
    /\ UNCHANGED notSevenZ

\* if let Err(err) = result { error_clone.write().unwrap().replace(err); }
SzStore(f) ==
    /\ szTask[f].pc = "failed"
    /\ szError' = <<f>>
    /\ szTask' = [szTask EXCEPT ![f].pc = "done"]
    /\ UNCHANGED <<szFolders, szThreads, szAfter, szFailed, szRes>>
    /\ UNCHANGED notSevenZ

\* The scope ends when every task has returned; the coordinator takes the
\* error out of the slot.
SzJoin ==
    /\ szRes = <<"none">>
    /\ szThreads > 0
    /\ \A f \in 1..Len(szFolders) : szTask[f].pc = "done"
    /\ szRes' = IF szError # <<>> THEN <<"err", szError[1]>> ELSE <<"ok">>
    /\ szError' = <<>>
    /\ UNCHANGED <<szFolders, szThreads, szTask, szAfter, szFailed>>
    /\ UNCHANGED notSevenZ

SevenZInit ==
    /\ S3Idle
    /\ ExtractIdle
    /\ RenameIdle
    /\ ArchiveIdle
    /\ ResticIdle
    /\ ExecIdle
    /\ ZstdIdle
    /\ ReaderIdle
    /\ PipeIdle
    /\ PoolIdle
    /\ TransferIdle
    /\ ArchiveTaskIdle
    /\ ZipIdle
    /\ CacheIdle
    /\ LocalIdle
    /\ szFolders \in UNION {[1..k -> 1..MaxFolderEntries] : k \in 0..MaxFolders}
    /\ szThreads \in 1..MaxThreads
    /\ szTask = [f \in 1..Len(szFolders) |-> [pc |-> "queued", n |-> 0]]
    /\ szAfter = [f \in 1..Len(szFolders) |-> 0]
    /\ szError = <<>> /\ szFailed = {} /\ szRes = <<"none">>

SevenZNext ==
    \/ \E f \in 1..Len(szFolders) :
          SzStart(f) \/ SzEntry(f) \/ SzFolderDone(f) \/ SzStore(f)
    \/ SzJoin

SpecSevenZ == SevenZInit /\ [][SevenZNext]_vars

\* -------------------------------------------- transfer archive task: the model

TransferArchiveFormats == {"tar", "tar_gz", "tar_zst"}

\* How many appended entries the writer under the tar builder holds back: the
\* SyncIoBridge writes through, GzEncoder and zstd::Encoder write a block at
\* a time.
HeldBack(format) == IF format = "tar" THEN 0 ELSE EncBlock - 1

\* JoinHandle::abort() of the transfer task (Drop, or old_task.abort() in
\* start): the task's future is dropped and with it the checksum task that
\* reads the archive pipe. The handle of the blocking task is dropped too,
\* which does not stop it.
AtAbort ==
    /\ atPc = "running"
    /\ ~atReaderDropped
    /\ atReaderDropped' = TRUE
    /\ UNCHANGED <<atFormat, atWalk, atPos, atEnc, atAfter, atPc>>
    /\ UNCHANGED notArchiveTask

\* One pass of the walker's loop: the entry is skipped (continue), or appended,
\* which fails by itself or by a write into the pipe without reader; the pipe
\* is written only when the encoder holds more than it keeps back.
AtEntry ==
    /\ atPc = "running"
    /\ atPos < atWalk
    /\ atPos' = atPos + 1
    /\ \E r \in {"skipped", "appended", "error"} :
        CASE r = "skipped" -> UNCHANGED <<atEnc, atAfter, atPc>>
          [] r = "error" -> atPc' = "failed" /\ UNCHANGED <<atEnc, atAfter>>
          [] r = "appended" ->
                IF atEnc + 1 > HeldBack(atFormat)
                THEN IF atReaderDropped
                     THEN atPc' = "failed" /\ UNCHANGED <<atEnc, atAfter>>
                     ELSE atEnc' = 0 /\ UNCHANGED <<atAfter, atPc>>
                ELSE /\ atEnc' = atEnc + 1
                     /\ atAfter' = IF atReaderDropped THEN atAfter + 1 ELSE atAfter
                     /\ UNCHANGED atPc
    /\ UNCHANGED <<atFormat, atWalk, atReaderDropped>>
    /\ UNCHANGED notArchiveTask

\* After the loop: tar.into_inner() writes the trailer, flush.
AtFinish ==
    /\ atPc = "running"
    /\ atPos = atWalk
    /\ atPc' = IF atReaderDropped THEN "failed" ELSE "ok"
    /\ atEnc' = 0
    /\ UNCHANGED <<atFormat, atWalk, atPos, atReaderDropped, atAfter>>
    /\ UNCHANGED notArchiveTask

ArchiveTaskInit ==
    /\ S3Idle
    /\ ExtractIdle
    /\ RenameIdle
    /\ ArchiveIdle
    /\ ResticIdle
    /\ ExecIdle
    /\ ZstdIdle
    /\ ReaderIdle
    /\ PipeIdle
    /\ PoolIdle
    /\ SevenZIdle
    /\ TransferIdle
    /\ ZipIdle
    /\ CacheIdle
    /\ LocalIdle
    /\ atFormat \in TransferArchiveFormats
    /\ atWalk \in 0..MaxWalk
    /\ atPos = 0 /\ atEnc = 0 /\ atReaderDropped = FALSE /\ atAfter = 0
    /\ atPc = "running"

ArchiveTaskNext == AtAbort \/ AtEntry \/ AtFinish

SpecArchiveTask == ArchiveTaskInit /\ [][ArchiveTaskNext]_vars

\* -------------------------------------------------------- create_zip: the model

\* base_dir().await returns: the blocking closure is spawned, or the error is
\* returned with `?`, which drops the guard.
CzBaseDir ==
    /\ czFuture = "base_dir"
    /\ \E ok \in BOOLEAN :
        IF ok
        THEN czFuture' = "closure" /\ czClosure' = "running" /\ UNCHANGED abort
        ELSE czFuture' = "returned" /\ abort' = TRUE /\ UNCHANGED czClosure
    /\ UNCHANGED <<czItems, czPos, czAdded>>
    /\ UNCHANGED notZip

\* The future is dropped at one of its awaits: AbortGuard::drop stores true.
CzDrop ==
    /\ czFuture \in {"base_dir", "closure"}
    /\ czFuture' = "dropped"
    /\ abort' = TRUE
    /\ UNCHANGED <<czItems, czPos, czAdded, czClosure>>
    /\ UNCHANGED notZip

\* The closure adds every entry without looking at the flag.
CzItemUnchecked ==
    /\ czClosure = "running"
    /\ czPos < Len(czItems)
    /\ IF czItems[czPos + 1] = "skip"
       THEN czPos' = czPos + 1 /\ UNCHANGED <<czAdded, czClosure>>
       ELSE \E ok \in BOOLEAN :
               IF ok
               THEN czPos' = czPos + 1 /\ czAdded' = czAdded + 1 /\ UNCHANGED czClosure
               ELSE czClosure' = "error" /\ UNCHANGED <<czPos, czAdded>>
    /\ UNCHANGED <<czItems, abort, czFuture>>
    /\ UNCHANGED notZip

\* The closure handles the next path: it is skipped (continue) before the
\* flag is looked at, or the flag is tested and the entry added.
CzItem ==
    /\ czClosure = "running"
    /\ czPos < Len(czItems)
    /\ IF czItems[czPos + 1] = "skip"
       THEN czPos' = czPos + 1 /\ UNCHANGED <<czAdded, czClosure>>
       ELSE IF abort
            THEN czClosure' = "aborted" /\ UNCHANGED <<czPos, czAdded>>
            ELSE \E ok \in BOOLEAN :
                    IF ok
                    THEN czPos' = czPos + 1 /\ czAdded' = czAdded + 1 /\ UNCHANGED czClosure
                    ELSE czClosure' = "error" /\ UNCHANGED <<czPos, czAdded>>
    /\ UNCHANGED <<czItems, abort, czFuture>>
    /\ UNCHANGED notZip

\* After the last source: archive.finish(), flush.
CzFinish ==
    /\ czClosure = "running"
    /\ czPos = Len(czItems)
    /\ \E ok \in BOOLEAN : czClosure' = IF ok THEN "ok" ELSE "error"
    /\ UNCHANGED <<czItems, czPos, czAdded, abort, czFuture>>
    /\ UNCHANGED notZip

\* The await of the blocking task returns: `??`, drop(guard), the result.
CzJoin ==
    /\ czFuture = "closure"
    /\ czClosure \in {"ok", "aborted", "error"}
    /\ czFuture' = "returned"
    /\ abort' = TRUE
    /\ UNCHANGED <<czItems, czPos, czAdded, czClosure>>
    /\ UNCHANGED notZip

ZipInit ==
    /\ S3Idle
    /\ ExtractIdle
    /\ RenameIdle
    /\ ArchiveIdle
    /\ ResticIdle
    /\ ExecIdle
    /\ ZstdIdle
    /\ ReaderIdle
    /\ PipeIdle
    /\ PoolIdle
    /\ SevenZIdle
    /\ ArchiveTaskIdle
    /\ TransferIdle
    /\ CacheIdle
    /\ LocalIdle
    /\ czItems \in UNION {[1..k -> {"skip", "entry"}] : k \in 0..MaxItems}
    /\ czPos = 0 /\ czAdded = 0 /\ abort = FALSE
    /\ czFuture = "base_dir" /\ czClosure = "none"

ZipNext == CzBaseDir \/ CzDrop \/ CzItem \/ CzFinish \/ CzJoin

SpecZip == ZipInit /\ [][ZipNext]_vars

\* -------------------------------------------- snapshot adapter cache: the model

Callers == 1..NumCallers

\* "create": create_backup; "base_path": get_backup_base_path (restore_backup,
\* download_backup); "list": list_backups.
CacheOps == {"create", "base_path", "list"}

\* What a caller does with the list get_backup_list returned.
AfterList(c, list) ==
    CASE cbCall[c].op = "list" -> [cbCall[c] EXCEPT !.list = list, !.pc = "done", !.res = "ok"]
      [] cbCall[c].op = "create" -> [cbCall[c] EXCEPT !.list = list, !.pc = "restic"]
      [] cbCall[c].op = "base_path" ->
            IF cbCall[c].uuid \in list
            THEN [cbCall[c] EXCEPT !.list = list, !.pc = "lookup"]
            ELSE [cbCall[c] EXCEPT !.list = list, !.pc = "done", !.res = "not_found"]

\* get_backup_list up to its await of the oneshot receiver: the keys of the
\* cached map, or, when the cache is None, a new refresh task is spawned.
CbGetList(c) ==
    /\ cbCall[c].pc = "start"
    /\ IF cbCache # <<>>
       THEN /\ cbCall' = [cbCall EXCEPT ![c] = AfterList(c, cbCache[1])]
            /\ UNCHANGED <<cbRefresh, cbSpawned>>
       ELSE /\ cbCall' = [cbCall EXCEPT ![c].pc = "wait"]
            /\ cbRefresh' = [cbRefresh EXCEPT ![c].pc = "run"]
            /\ cbSpawned' = cbSpawned + 1
    /\ UNCHANGED <<cbCache, cbRepo>>
    /\ UNCHANGED notCache

\* One pass of the refresh loop up to its write of the cache: `restic
\* snapshots` fails (sleep, continue: the task is where it was), or the list is built and, on the first
\* success, sent to the caller that spawned the task.
CbRefreshRun(r) ==
    /\ cbRefresh[r].pc = "run"
    /\ \E ok \in BOOLEAN :
        IF ok
        THEN /\ cbRefresh' = [cbRefresh EXCEPT ![r] = [pc |-> "store", list |-> cbRepo]]
             /\ cbCall' = IF cbCall[r].pc = "wait"
                          THEN [cbCall EXCEPT ![r] = AfterList(r, cbRepo)]
                          ELSE cbCall
        ELSE UNCHANGED <<cbRefresh, cbCall>>
    /\ UNCHANGED <<cbCache, cbRepo, cbSpawned>>
    /\ UNCHANGED notCache

\* CACHED_BACKUPS.write().await.replace(backups), then the sleep, after
\* which the loop starts over.
CbRefreshStore(r) ==
    /\ cbRefresh[r].pc = "store"
    /\ cbCache' = <<cbRefresh[r].list>>
    /\ cbRefresh' = [cbRefresh EXCEPT ![r] = [pc |-> "run", list |-> {}]]
    /\ UNCHANGED <<cbRepo, cbCall, cbSpawned>>
    /\ UNCHANGED notCache

\* get_backup_base_path after the list: the cache is read for the path.
CbLookup(c) ==
    /\ cbCall[c].pc = "lookup"
    /\ cbCall' = [cbCall EXCEPT ![c].pc = "done",
                    ![c].res = IF cbCache # <<>> /\ cbCall[c].uuid \in cbCache[1]
                               THEN "ok" ELSE "not_found"]
    /\ UNCHANGED <<cbCache, cbRepo, cbRefresh, cbSpawned>>
    /\ UNCHANGED notCache

\* What create_backup does to the cache once the child has exited.
CreateInsertAlways(c, ok) ==
    IF cbCache = <<>> THEN cbCache' = cbCache
    ELSE cbCache' = <<cbCache[1] \cup {cbCall[c].uuid}>>

CreateInsert(c, ok) ==
    IF ok /\ cbCall[c].uuid \notin cbCall[c].list /\ cbCache # <<>>
    THEN cbCache' = <<cbCache[1] \cup {cbCall[c].uuid}>>
    ELSE cbCache' = cbCache

\* create_backup after the list: the child runs and exits; on success the
\* snapshot exists and a uuid that was not in the list is inserted into the
\* cached map (as_mut().unwrap() panics when the cache is still None).
CbCreate(c) ==
    /\ cbCall[c].pc = "restic"
    /\ \E ok \in BOOLEAN :
        /\ cbRepo' = IF ok THEN cbRepo \cup {cbCall[c].uuid} ELSE cbRepo
        /\ CreateInsert(c, ok)
        /\ cbCall' = [cbCall EXCEPT ![c].pc = "done",
                        ![c].res = IF ~ok THEN "err"
                                   ELSE IF cbCall[c].uuid \notin cbCall[c].list /\ cbCache = <<>>
                                        THEN "panic" ELSE "ok"]
    /\ UNCHANGED <<cbRefresh, cbSpawned>>
    /\ UNCHANGED notCache

CacheInit ==
    /\ S3Idle
    /\ ExtractIdle
    /\ RenameIdle
    /\ ArchiveIdle
    /\ ResticIdle
    /\ ExecIdle
    /\ ZstdIdle
    /\ ReaderIdle
    /\ PipeIdle
    /\ PoolIdle
    /\ SevenZIdle
    /\ ArchiveTaskIdle
    /\ ZipIdle
    /\ TransferIdle
    /\ LocalIdle
    /\ cbCache = <<>>
    /\ cbRepo \in {{}, {1}}
    /\ cbRefresh = [r \in Callers |-> [pc |-> "off", list |-> {}]]
    /\ cbCall \in [Callers -> {[op |-> o, uuid |-> u, pc |-> "start", list |-> {}, res |-> "none"] :
                                   o \in CacheOps \ {"list"}, u \in Uuids}
                                \cup {[op |-> "list", uuid |-> 1, pc |-> "start", list |-> {}, res |-> "none"]}]
    /\ cbSpawned = 0

CacheNext ==
    \E c \in Callers :
        \/ CbGetList(c) \/ CbLookup(c) \/ CbCreate(c)
        \/ CbRefreshRun(c) \/ CbRefreshStore(c)

SpecCache == CacheInit /\ [][CacheNext]_vars

\* ------------------------------------------------- local adapter: the model

\* A file name is a stem followed by its dot-separated suffixes.
get_tar_file_name(uuid) == [stem |-> uuid, ext |-> <<"tar">>]
get_tar_gz_file_name(uuid) == [stem |-> uuid, ext |-> <<"tar", "gz">>]
get_tar_zstd_file_name(uuid) == [stem |-> uuid, ext |-> <<"tar", "zst">>]
get_zip_file_name(uuid) == [stem |-> uuid, ext |-> <<"zip">>]

\* The names the adapter can have created for a uuid.
BackupFileNames(uuid) ==
    {get_tar_file_name(uuid), get_tar_gz_file_name(uuid),
     get_tar_zstd_file_name(uuid), get_zip_file_name(uuid)}

\* str::trim_end_matches on the suffixes: the pattern is removed from the end
\* as often as it matches.
RECURSIVE trim_end_matches(_, _)
trim_end_matches(ext, pat) ==
    IF Len(ext) >= Len(pat) /\ SubSeq(ext, Len(ext) - Len(pat) + 1, Len(ext)) = pat
    THEN trim_end_matches(SubSeq(ext, 1, Len(ext) - Len(pat)), pat)
    ELSE ext

\* The four probes of get_first_file_name in their order.
get_first_file_name(dir, uuid) ==
    IF get_tar_file_name(uuid) \in dir THEN <<"ok", get_tar_file_name(uuid)>>
    ELSE IF get_tar_gz_file_name(uuid) \in dir THEN <<"ok", get_tar_gz_file_name(uuid)>>
    ELSE IF get_tar_zstd_file_name(uuid) \in dir THEN <<"ok", get_tar_zstd_file_name(uuid)>>
    ELSE IF get_zip_file_name(uuid) \in dir THEN <<"ok", get_zip_file_name(uuid)>>
    ELSE <<"err">>

\* list_backups: the stems of the entries whose name is a uuid once the known
\* suffixes are trimmed.
list_backups(dir) ==
    {f.stem : f \in {g \in dir :
        trim_end_matches(trim_end_matches(trim_end_matches(trim_end_matches(
            g.ext, <<"tar", "gz">>), <<"tar", "zst">>), <<"tar">>), <<"zip">>) = <<>>}}

\* delete_backup: the first file found is removed.
LcDelete ==
    /\ lcPc = "start"
    /\ LET first == get_first_file_name(lcDir, lcUuid) IN
        IF first[1] = "err"
        THEN /\ lcDeleted' = <<"err">> /\ lcDir' = lcDir
        ELSE /\ lcDeleted' = <<"ok">> /\ lcDir' = lcDir \ {first[2]}
    /\ lcPc' = "deleted"
    /\ UNCHANGED <<lcUuid, lcListed, lcFirst>>
    /\ UNCHANGED notLocal

\* list_backups is called after the delete.
LcList ==
    /\ lcPc = "deleted"
    /\ lcListed' = list_backups(lcDir)
    /\ lcPc' = "listed"
    /\ UNCHANGED <<lcDir, lcUuid, lcDeleted, lcFirst>>
    /\ UNCHANGED notLocal

\* get_first_file_name is called with the deleted uuid.
LcFirst ==
    /\ lcPc = "listed"
    /\ lcFirst' = get_first_file_name(lcDir, lcUuid)
    /\ lcPc' = "done"
    /\ UNCHANGED <<lcDir, lcUuid, lcDeleted, lcListed>>
    /\ UNCHANGED notLocal

LocalInit ==
    /\ S3Idle
    /\ ExtractIdle
    /\ RenameIdle
    /\ ArchiveIdle
    /\ ResticIdle
    /\ ExecIdle
    /\ ZstdIdle
    /\ ReaderIdle
    /\ PipeIdle
    /\ PoolIdle
    /\ SevenZIdle
    /\ ArchiveTaskIdle
    /\ ZipIdle
    /\ CacheIdle
    /\ TransferIdle
    /\ lcDir \in SUBSET (UNION {BackupFileNames(u) : u \in Uuids})
    /\ lcUuid \in Uuids
    /\ lcPc = "start"
    /\ lcDeleted = <<"none">> /\ lcListed = {} /\ lcFirst = <<"none">>

LocalNext == LcDelete \/ LcList \/ LcFirst

SpecLocal == LocalInit /\ [][LocalNext]_vars

\* ---------------------------------------------- create_backup: properties

RECURSIVE SumLen(_, _)
SumLen(u, k) == IF k = 0 THEN 0 ELSE SumLen(u, k - 1) + u[k].len

CeilDiv(a, b) == (a + b - 1) \div b

C9_PartCountIsCeil ==
    (s3pc = "ok" /\ partSize > 0) => Len(parts) = CeilDiv(size, partSize)

\* C9 amended: when create_backup returns Ok, parts has one entry per signed URL,
\* and that is at least ceil(size / part_size) (a part_size of 0 only with size 0).
C9_PartCountIsUrlCount ==
    s3pc = "ok" =>
        /\ Len(parts) = nUrls
        /\ partSize > 0 => Len(parts) >= CeilDiv(size, partSize)
        /\ partSize = 0 => size = 0

\* C9 witness: a successful backup with more signed URLs than the file needs.
C9_Witness ==
    /\ s3pc = "ok"
    /\ partSize > 0
    /\ size > 0
    /\ Len(parts) > CeilDiv(size, partSize)

\* C10: the entries of parts are numbered 1, 2, ..., in URL order, and each was
\* appended only after a PUT of that part returned a 2xx status.
C10_PartsAckedInOrder ==
    /\ Len(parts) = idx
    /\ \A k \in 1..Len(parts) : parts[k].part_number = k /\ k \in acked

\* C10 witness: a successful backup of several parts, each acknowledged.
C10_Witness ==
    /\ s3pc = "ok"
    /\ Len(parts) >= 2
    /\ acked = 1..Len(parts)

\* This step sends the PUT request of the current part.
PutSent ==
    /\ s3pc = "put"
    /\ \/ idx' = idx + 1
       \/ attempts' = attempts + 1 /\ s3pc' \in {"put", "sleep"}

\* create_backup returned an error because a part used up its attempts.
RetriesExhausted == s3pc = "err" /\ attempts > MaxAttempts

\* C11: a PUT of a part is sent only while fewer than 50 were sent for that part;
\* the step that finds the attempts used up appends no part and moves to no later
\* URL, and after an error create_backup never returns a RawServerBackup.
C11_AtMostFiftyPuts ==
    [][/\ PutSent => attempts < MaxAttempts
       /\ (s3pc = "put" /\ ~PutSent) =>
             (attempts = MaxAttempts /\ s3pc' = "err" /\ idx' = idx /\ parts' = parts)
       /\ s3pc = "err" => s3pc' = "err"]_vars

\* C11 witness: the second part used up its 50 attempts although a later URL remained.
C11_Witness ==
    /\ RetriesExhausted
    /\ idx = 1
    /\ Len(parts) = 1
    /\ nUrls = 3

\* C12: after every PUT that did not succeed, create_backup sleeps before it goes
\* on, whether the PUT ended in a connection error or in a non-success status.
C12_BackoffBeforeEveryRetry ==
    [][(PutSent /\ idx' = idx) => s3pc' = "sleep"]_vars

\* The scratch file was removed by an earlier step than this one, or is removed by
\* this step.
ScratchRemoved == ~scratch'

\* C13: the scratch file is gone if and only if create_backup returned Ok; the step
\* that removes it is taken after a part was recorded for every URL with no byte
\* remaining, and after every error return the file is still there.
C13_ScratchUnlinkedIffOk ==
    [][/\ ScratchRemoved <=> s3pc' = "ok"
       /\ (scratch /\ ScratchRemoved) => (idx = nUrls /\ Len(parts) = nUrls /\ remaining = 0)
       /\ s3pc' = "err" => scratch']_vars

\* C13 witness: create_backup returned Ok after uploading a non-empty file in several
\* parts, and the scratch file is gone.
C13_Witness ==
    /\ s3pc = "ok"
    /\ ~scratch
    /\ size > 0
    /\ nUrls >= 2

\* ------------------------------------------------ Archive::extract: properties

\* C14: nothing is created under destination for an entry whose path is absolute
\* or whose destination path is ignored, whatever the archive type.
C14_NothingMadeForAbsoluteOrIgnored ==
    \A m \in xMade : ~xEntries[m[1]].abs /\ ~xEntries[m[1]].ignored

\* C16: extract of a tar archive returns Ok only if no decoded position of the
\* entry stream was a malformed header.
C16_TarMalformedHeaderIsError ==
    (xType = "tar" /\ xRes = "ok") => \A i \in 1..Len(xEntries) : ~xEntries[i].bad

\* ---------------------------------------------------- rename route: properties

\* C15: of the files the loop has handled, a rename-out (source ignored,
\* destination not ignored) that the filesystem allows was performed and counted,
\* and no rename whose destination is ignored was performed.
C15_RenameOutPerformed ==
    /\ renamed_count = Cardinality(rnDone)
    /\ \A i \in 1..Len(rnFiles) :
          /\ rnFiles[i].toIgnored => i \notin rnDone
          /\ (/\ i < rnPos
              /\ rnStatus \in {"running", "200"}
              /\ rnFiles[i].fromIgnored /\ ~rnFiles[i].toIgnored
              /\ ~rnFiles[i].trivial /\ rnFiles[i].fromExists /\ ~rnFiles[i].toExists
              /\ rnFiles[i].renameOk)
             => i \in rnDone

\* --------------------------------------- create_tar / create_zip: properties

\* Entry i of the source is in the archive.
InArchive(i) == \E k \in 1..Len(arEntries) : arEntries[k].i = i

\* Entry e carries an error of its own: it cannot be opened, its metadata cannot
\* be read, its mtime cannot be encoded, its link name does not fit.
EntryError(e) ==
    \/ e.fault # "none"
    \/ arFormat = "zip" /\ ~DosEncodable(e.mtime, arTz)
    \/ arFormat = "tar" /\ e.kind = "symlink" /\ e.linkLen > TarLinkMax

\* C17: create_tar and create_zip never fail because of an error of one entry, and
\* when the walk is over every non-ignored entry without an error is in the archive.
C17_EntryErrorsAreSkipped ==
    /\ arPhase # "err"
    /\ arPhase \in {"extract", "ok"} =>
          \A i \in 1..Len(arSrc) :
              (~arSrc[i].ignored /\ ~EntryError(arSrc[i])) => InArchive(i)

\* C18: after create_tar and extract, every non-ignored readable entry of the source
\* exists at the destination with its kind, mode, mtime and link target.
C18_TarRoundTrip ==
    (arFormat = "tar" /\ arPhase = "ok") =>
        \A i \in 1..Len(arSrc) :
            (~arSrc[i].ignored /\ arSrc[i].fault = "none") =>
                Archived(i, arSrc[i].kind, arSrc[i].mode, arSrc[i].mtime, arSrc[i].linkLen)
                    \in arOut

\* C19: after create_zip and extract, every non-ignored readable entry of the source
\* (symlinks of at most 2048 bytes) exists at the destination with its kind, mode and
\* link target, and its mtime rounded down to two seconds, whatever the timezone.
C19_ZipRoundTrip ==
    (arFormat = "zip" /\ arPhase = "ok") =>
        \A i \in 1..Len(arSrc) :
            (/\ ~arSrc[i].ignored
             /\ arSrc[i].fault = "none"
             /\ arSrc[i].linkLen <= ZipLinkMax) =>
                Archived(i, arSrc[i].kind, arSrc[i].mode,
                         arSrc[i].mtime - (arSrc[i].mtime % 2), arSrc[i].linkLen) \in arOut

\* ------------------------------------------------ snapshot adapter: properties

\* C20: create_backup and restore_backup return Ok only when the snapshot CLI
\* exited with status 0.
C20_FailedCliRunIsError ==
    rsRes = "ok" => rsExit = 0

\* ------------------------------------- transfer: start and transfer_failure

\* The positions of a task inside transfer_failure.
FailurePcs == {"tf_panel", "tf_slot", "tf_store", "tf_send"}

\* The positions of a task between the `processing` broadcast and the end of
\* its work: the archive task runs, the form is built, the request is sent.
WorkingPcs == {"list", "form", "join", "delete"}

C26_TransferFailureRunsToItsEnd ==
    [][\A t \in Tasks :
          (tasks[t].pc \in FailurePcs /\ tasks'[t].pc # tasks[t].pc)
             => \/ tasks[t].pc = "tf_panel" /\ tasks'[t].pc = "tf_slot" /\ ~panelTransfer'
                \/ tasks[t].pc = "tf_slot" /\ tasks'[t].pc = "tf_store" /\ holder' # "slot"
                \/ tasks[t].pc = "tf_store" /\ tasks'[t].pc = "tf_send" /\ ~transferring'
                \/ tasks[t].pc = "tf_send" /\ tasks'[t].pc = "done"
                     /\ SentIn(ws', t, "failure")]_vars

\* C35: on every way a transfer can end (success, transfer_failure, abort of
\* the transfer task) its progress task eventually stops broadcasting.
C35_ProgressEventuallyStops ==
    \A t \in Tasks :
        [](tasks[t].pc \in TerminalPcs => <>(tasks[t].progress # "running"))

\* C36: the `completed` broadcast of a transfer precedes every status
\* broadcast of a transfer started after it finished (a task that broadcasts
\* `completed` had returned before any later start() call was made).
C36_CompletedPrecedesLaterTransfers ==
    \A i, j \in 1..Len(ws) :
        (i < j /\ ws[j][2] = "completed") => ws[i][1] <= ws[j][1]

\* ------------------------------------------------------ ssh exec: properties

\* The exit statuses the client received, in order.
ExitStatuses == SelectSeq(exChan, LAMBDA e : e \in {"exit0", "exit1"})

\* C21: an exec session that ends on a live channel has sent exactly one exit
\* status, directly followed by the final close; the status is 1 whenever the
\* command was rejected or failed, which includes every session that wrote
\* "Permission denied.", and 0 only when it succeeded.
C21_ExitStatusTellsOutcome ==
    (exPc = "done" /\ exAlive) =>
        /\ Len(ExitStatuses) = 1
        /\ Len(exChan) >= 2
        /\ exChan[Len(exChan)] = "close"
        /\ exChan[Len(exChan) - 1] = ExitStatuses[1]
        /\ (exOutcome # "succeeded" => ExitStatuses[1] = "exit1")
        /\ (ExitStatuses[1] = "exit0" => exOutcome = "succeeded")

\* C22 (as the code has it): the command line is written to the container's
\* stdin only if the user holds ControlConsole, the server is not Offline and
\* the container's stdin is attached; a ConsoleCommand record is logged if and
\* only if the command was written.
C22_WrittenOnlyWhenNotOffline ==
    /\ exWritten => /\ "ControlConsole" \in exPerms
                    /\ exState # "offline"
                    /\ exStdin
                    /\ exCmd \in {"tar_t", "say"}
    /\ ("ConsoleCommand" \in exActivity) <=> exWritten

\* C22, witness: a command was written to stdin and its record logged.
C22_Witness ==
    /\ exPc = "done" /\ exWritten /\ "ConsoleCommand" \in exActivity
    /\ exState = "running"

\* C22 (as stated): the command line is written only if the user holds
\* ControlConsole and the server is Running; a ConsoleCommand record is logged
\* if and only if the command was written.
C22_WrittenOnlyWhenRunning ==
    /\ exWritten => ("ControlConsole" \in exPerms /\ exState = "running")
    /\ ("ConsoleCommand" \in exActivity) <=> exWritten

\* ------------------------------------ estimated_size (zstd): properties

\* The zstd frame format (RFC 8878, 3.1.1.1): the Frame_Content_Size_flag is
\* bits 7-6 of the descriptor; the field is 1 byte (flag 0, single segment),
\* 2, 4 or 8 bytes long and absent for flag 0 without single segment; it
\* follows the Window_Descriptor (one byte, absent in a single segment frame)
\* and the Dictionary_ID (0, 1, 2 or 4 bytes by bits 1-0); the value of a
\* 2-byte field is offset by 256.
FcsFlag(header) == header[5] \div 64

FcsSingleSegment(header) == (header[5] \div 32) % 2 = 1

FcsFieldSize(header) ==
    CASE FcsFlag(header) = 0 -> IF FcsSingleSegment(header) THEN 1 ELSE 0
      [] FcsFlag(header) = 1 -> 2
      [] FcsFlag(header) = 2 -> 4
      [] FcsFlag(header) = 3 -> 8

FcsOffset(header) ==
    5 + (IF FcsSingleSegment(header) THEN 0 ELSE 1)
      + (CASE header[5] % 4 = 0 -> 0 [] header[5] % 4 = 1 -> 1
           [] header[5] % 4 = 2 -> 2 [] header[5] % 4 = 3 -> 4)

FrameContentSize(header) ==
    LET n == FcsFieldSize(header)
        field == SubSeq(header, FcsOffset(header) + 1, FcsOffset(header) + n)
        v16 == field[1] + 256 * field[2] + 256
    IN  IF n = 0 THEN <<>>
        ELSE IF n = 2
             THEN <<[i \in 1..8 |-> CASE i = 1 -> v16 % 256
                                      [] i = 2 -> (v16 \div 256) % 256
                                      [] i = 3 -> v16 \div 65536
                                      [] OTHER -> 0]>>
             ELSE <<[i \in 1..8 |-> IF i <= n THEN field[i] ELSE 0]>>

\* C23: for a zstd frame whose Frame Content Size field lies within the bytes
\* read, estimated_size returns the Frame Content Size the format defines
\* (and no size when the frame declares none).
C23_ZstdFrameContentSize ==
    (/\ zPc = "done"
     /\ SubSeq(zHeader, 1, 4) = ZstdMagic
     /\ FcsOffset(zHeader) + FcsFieldSize(zHeader) <= HeaderLen)
        => zRes = FrameContentSize(zHeader)

\* --------------------------------------------------- BoundedReader: properties

C27_ForwardedIsHashed ==
    /\ pHashed = pForwarded \o pChunk
    /\ pSide # <<>> =>
          /\ pCk = "done"
          /\ pIn = <<>> /\ pArchive # "running"
          /\ pChunk = <<>>
          /\ pForwarded = pHashed
          /\ pSide = <<Digest(pForwarded)>>

\* C27, witness: the digest of a complete archive of several bytes was written.
C27_Witness ==
    /\ pSide # <<>>
    /\ pArchive = "ok"
    /\ Len(pForwarded) = pSrcLen
    /\ pSrcLen >= 2

\* C28: the checksum side channel carries a digest only if the archive task
\* completed successfully.
C28_DigestOnlyOfCompleteArchive ==
    pSide # <<>> => pArchive = "ok"

\* -------------------------------------------- parallel zip extraction: properties

\* C29: every entry index is claimed through the shared counter by at most one
\* worker, and no entry is written twice; when the extraction ends without a
\* failure every index 0 .. n-1 was claimed by exactly one worker.
C29_EachIndexClaimedOnce ==
    /\ \A a, b \in 1..Len(poClaims) :
          poClaims[a][2] = poClaims[b][2] => a = b
    /\ \A a, b \in 1..Len(poExtracted) :
          poExtracted[a] = poExtracted[b] => a = b
    /\ \A a \in 1..Len(poClaims) : poClaims[a][2] \in 0..(poLen - 1)
    /\ poRes = <<"ok">> =>
          \A i \in 0..(poLen - 1) : \E a \in 1..Len(poClaims) : poClaims[a][2] = i

\* C29, witness: an extraction by two workers ended without a failure and
\* both workers claimed entries.
C29_Witness ==
    /\ poRes = <<"ok">>
    /\ poLen >= 2
    /\ \E a, b \in 1..Len(poClaims) : poClaims[a][1] # poClaims[b][1]

\* C30: once the shared error slot holds an error, no later failure replaces
\* it: the slot keeps it until the coordinator takes it out and returns it.
C30_FirstErrorIsKept ==
    [][poError # <<>> => (poError' = poError \/ poRes' = <<"err", poError[1]>>)]_vars

\* -------------------------------------------- parallel 7z extraction: properties

\* C31: once a worker has stored an error in the shared slot every other
\* worker starts at most one further entry, and the coordinator returns an
\* error if and only if some worker failed.
C31_AtMostOneEntryAfterError ==
    /\ \A f \in 1..Len(szFolders) : szAfter[f] <= 1
    /\ szRes # <<"none">> => (szRes[1] = "err" <=> szFailed # {})

\* -------------------------------------------- transfer archive task: properties

\* C32: after the transfer task was aborted its blocking archive task appends
\* at most one more entry to the archive before it terminates.
C32_StopsWithinOneEntry ==
    atAfter <= 1

\* -------------------------------------------------------- create_zip: properties

\* C33: dropping the future of create_zip sets the abort flag; while the flag
\* is set the closure starts no entry, and when it comes to an entry it
\* returns `operation aborted`; when create_zip runs to its end the flag is
\* set only after the closure has returned.
C33_AbortFlagStopsClosure ==
    /\ [](czFuture = "dropped" => abort)
    /\ [][abort => czAdded' = czAdded]_vars
    /\ [][(/\ abort /\ czClosure = "running" /\ czPos < Len(czItems)
           /\ czItems[czPos + 1] = "entry"
           /\ <<czPos, czClosure>>' # <<czPos, czClosure>>)
             => czClosure' = "aborted"]_vars
    /\ [][(~abort /\ abort' /\ czFuture' = "returned") => czClosure # "running"]_vars

\* C33, witness: the future was dropped while the closure was running, after
\* an entry was added, and the closure returned `operation aborted`.
C33_Witness ==
    /\ czFuture = "dropped"
    /\ czClosure = "aborted"
    /\ czAdded >= 1

RefreshWrites == \E r \in Callers : cbRefresh[r].pc = "store" /\ cbRefresh'[r].pc = "run"

\* create_backup of caller c inserts its uuid into the cached map in this step.
CreateWrites(c) ==
    /\ cbCall[c].op = "create" /\ cbCall[c].pc = "restic" /\ cbCall'[c].res = "ok"
    /\ cbCall[c].uuid \notin cbCall[c].list
    /\ cbCache # <<>> /\ cbCache' = <<cbCache[1] \cup {cbCall[c].uuid}>>
    /\ cbCall[c].uuid \in cbRepo'

\* C37 (as the code has it): the cache is written by the refresh tasks, which
\* replace the map, and by create_backup, which after a successful run inserts
\* the uuid of the new backup when it was not in the list; by nothing else.
C37_CacheWrittenByRefreshAndCreate ==
    [][cbCache' # cbCache => (RefreshWrites \/ \E c \in Callers : CreateWrites(c))]_vars

\* C37, witness: a create_backup has inserted its uuid into the cached map.
C37_Witness ==
    \E c \in Callers :
        /\ cbCall[c].op = "create" /\ cbCall[c].res = "ok"
        /\ cbCall[c].uuid \notin cbCall[c].list
        /\ cbCache # <<>> /\ cbCall[c].uuid \in cbCache[1]

\* C37 (as stated): the cache is written only by the refresh task.
C37_CacheWrittenOnlyByRefresh ==
    [][cbCache' # cbCache => RefreshWrites]_vars

\* C38: at most one refresh task is ever launched.
C38_OneRefreshTask ==
    cbSpawned <= 1

\* C39: a get_backup_base_path whose get_backup_list returned a set with the
\* uuid finds the uuid in the cache and does not fail with `not found`.
C39_ListedUuidIsCached ==
    \A c \in Callers :
        (cbCall[c].op = "base_path" /\ cbCall[c].pc = "done"
            /\ cbCall[c].uuid \in cbCall[c].list)
          => cbCall[c].res = "ok"

\* ------------------------------------------------- local adapter: properties

\* C40: after delete_backup(uuid) returned Ok the uuid is not returned by
\* list_backups and get_first_file_name(uuid) fails, whatever files the
\* backup directory held.
C40_DeletedBackupIsGone ==
    (lcPc = "done" /\ lcDeleted = <<"ok">>)
        => (lcUuid \notin lcListed /\ lcFirst = <<"err">>)
====
